---- MODULE Spec2Model ----
(***************************************************************************)
(* Matching and confirmation engine of munch-club (lib/api.ts): the        *)
(* availability store, the priority score ledger, findPotentialMatches and *)
(* the acceptMatch / declineMatch lifecycle over the Firestore             *)
(* collections userAvailability, priorityScores, matches, notifications.   *)
(*                                                                         *)
(* Every await of acceptMatch and declineMatch is a point where other      *)
(* requests interleave, so an invocation is a frame with one action per    *)
(* store round trip; the updatePriorityScore it starts runs detached.      *)
(***************************************************************************)
EXTENDS Integers, Sequences, FiniteSets, TLC

(***************************************************************************)
(* Bounds of the model.                                                    *)
(***************************************************************************)
MaxCalls == 3       \* acceptMatch / declineMatch invocations that get to their write
MaxInFlight == 2    \* of them, in flight at one time
MaxMatches == 1     \* documents in the matches collection
MaxSaves == 3       \* saveUserAvailability calls issued in one behaviour
MaxProposals == 2   \* proposals in the store when findPotentialMatches is called repeatedly
MaxScoreCalls == 2  \* direct getPriorityScore / updatePriorityScore calls that reach a write
MaxCrowdMatches == 4 \* proposals in the store when five users have completed the survey

(***************************************************************************)
(* Users.  String comparison of uids (userId1 < userId2) is the rank.      *)
(***************************************************************************)
UserSeq == <<"u1", "u2", "u3", "u4", "u5">>
\* the users of the users collection, but for the specifications of the crowd
Users == {UserSeq[i] : i \in 1..3}
\* every uid
Crowd == {UserSeq[i] : i \in 1..Len(UserSeq)}
Rank(u) == CHOOSE i \in 1..Len(UserSeq) : UserSeq[i] = u
Undefined == "undefined"
NoUser == "nobody"

Min(a, b) == IF a < b THEN a ELSE b
Max(a, b) == IF a > b THEN a ELSE b

(***************************************************************************)
(* The users collection (UserProfile with its UserSurveyData).  u1 and u2  *)
(* have completed the survey, whose form requires a phone number; u3 has   *)
(* signed in only (createOrUpdateUser).                                    *)
(***************************************************************************)
NoSurveyData ==
    [mealTalkPreferences |-> {}, conversationStyle |-> "", conversationPace |-> "",
     foodPersonality |-> "", favoriteDiningHalls |-> <<>>, phoneNumber |-> ""]

UserDocs ==
    [u \in Users |->
        CASE u = "u1" ->
               [uid |-> u, surveyCompleted |-> TRUE, hasSurveyData |-> TRUE,
                surveyData |->
                  [mealTalkPreferences |-> {"sports", "tech"},
                   conversationStyle |-> "listener", conversationPace |-> "slow",
                   foodPersonality |-> "adventurous",
                   favoriteDiningHalls |-> <<"Wilbur", "Stern">>,
                   phoneNumber |-> "6500000001"]]
          [] u = "u2" ->
               [uid |-> u, surveyCompleted |-> TRUE, hasSurveyData |-> TRUE,
                surveyData |->
                  [mealTalkPreferences |-> {"tech"},
                   conversationStyle |-> "listener", conversationPace |-> "fast",
                   foodPersonality |-> "adventurous",
                   favoriteDiningHalls |-> <<"Stern">>,
                   phoneNumber |-> "6500000002"]]
          [] OTHER ->
               [uid |-> u, surveyCompleted |-> FALSE, hasSurveyData |-> FALSE,
                surveyData |-> NoSurveyData]]

(***************************************************************************)
(* Calendar.  A date key "YYYY-MM-DD" is the tuple <<year, month, day>>    *)
(* that split('-').map(Number) makes of it, a time label "HH:MM" the tuple *)
(* <<hours, minutes>>.  A Date is its number of minutes since              *)
(* 2023-01-01 00:00 local time; a Timestamp is its number of seconds.      *)
(***************************************************************************)
MonthLengths == <<31, 28, 31, 30, 31, 30, 31, 31, 30, 31, 30, 31>>

RECURSIVE DaysBeforeMonth(_)
DaysBeforeMonth(monthIndex) ==
    IF monthIndex <= 0 THEN 0
    ELSE MonthLengths[monthIndex] + DaysBeforeMonth(monthIndex - 1)

\* new Date(year, monthIndex, dayNum, hours, minutes): out-of-range parts carry over
NewDate(year, monthIndex, dayNum, hours, minutes) ==
    ((((year - 2023) * 365 + DaysBeforeMonth(monthIndex) + dayNum - 1) * 24
        + hours) * 60) + minutes

\* Timestamp.fromDate(date).seconds
TimestampFromDate(date) == date * 60

\* new Date(timestamp.seconds * 1000), as the pages rebuild the suggested time
DateOfSeconds(seconds) == seconds \div 60

RECURSIVE MonthOfDay(_, _)
MonthOfDay(dayOfYear, monthIndex) ==
    IF monthIndex >= 11 \/ dayOfYear < DaysBeforeMonth(monthIndex + 1)
    THEN monthIndex
    ELSE MonthOfDay(dayOfYear, monthIndex + 1)

\* the local calendar day of a Date, as a date key
DateKeyOf(date) ==
    LET dayOfYear == (date \div (24 * 60)) % 365
        year == 2023 + (date \div (24 * 60)) \div 365
        monthIndex == MonthOfDay(dayOfYear, 0)
    IN  <<year, monthIndex + 1, dayOfYear - DaysBeforeMonth(monthIndex) + 1>>

\* the local hours and minutes of a Date, as a time label
TimeLabelOf(date) == <<(date \div 60) % 24, date % 60>>

(***************************************************************************)
(* Availability documents (WeeklyAvailabilityData), keyed userId_weekKey   *)
(* or userId_repeating.  availability maps date keys to sets of labels.    *)
(***************************************************************************)
repeatingAvailabilityDoc == "repeating"
ThisWeekKey == "2023-07-31"      \* formatDateKey(getMonday(new Date()))
NextWeekKey == "2023-08-07"
WeekKeys == {ThisWeekKey, NextWeekKey}

\* d.getDay(): 2023-01-01 was a Sunday (0)
GetDay(date) == (date \div (24 * 60)) % 7

\* getMonday(d): setDate(d.getDate() - day + (day === 0 ? -6 : 1)) keeps the local
\* time of day
getMonday(date) ==
    LET day == GetDay(date)
    IN  date + (IF day = 0 THEN -6 ELSE 1 - day) * 24 * 60

\* Date.prototype.getTimezoneOffset() of the browsers, in minutes: UTC, UTC-7, UTC+9
TimezoneOffsets == {0, 420, -540}

\* "YYYY-MM-DD" of the date keys <<year, month, day>> that occur
DateKeyStrings ==
    (<<2023, 7, 30>> :> "2023-07-30") @@ (<<2023, 7, 31>> :> ThisWeekKey) @@
    (<<2023, 8, 1>> :> "2023-08-01") @@ (<<2023, 8, 6>> :> "2023-08-06") @@
    (<<2023, 8, 7>> :> NextWeekKey) @@ (<<2023, 8, 8>> :> "2023-08-08")

\* formatDateKey(d): d.toISOString().split('T')[0] is the calendar day in UTC
formatDateKey(date, timezoneOffset) == DateKeyStrings[DateKeyOf(date + timezoneOffset)]

\* the week key of getUserAvailability and saveUserAvailability
WeekKeyOf(weekDate, timezoneOffset) == formatDateKey(getMonday(weekDate), timezoneOffset)

\* the dates passed as weekDate: Monday 09:00 and 00:30, Wednesday 18:00,
\* Sunday 23:30 of the week of 2023-07-31
WeekDates == {NewDate(2023, 6, 31, 9, 0), NewDate(2023, 6, 31, 0, 30),
              NewDate(2023, 7, 2, 18, 0), NewDate(2023, 7, 6, 23, 30)}

DocKeys == WeekKeys \cup {repeatingAvailabilityDoc}
             \cup {WeekKeyOf(d, tz) : d \in WeekDates, tz \in TimezoneOffsets}
AvailabilityDocIds == [userId : Users, key : DocKeys]

Aug1 == <<2023, 8, 1>>
Aug2 == <<2023, 8, 2>>
T1200 == <<12, 0>>
T1230 == <<12, 30>>
T1300 == <<13, 0>>

EmptyAvailability == [d \in {} |-> {}]

\* what the availability grid can hand to saveUserAvailability
AvailabilityInputs ==
    { (Aug1 :> {T1200, T1230}) @@ (Aug2 :> {T1300}),
      (Aug1 :> {T1230, T1300}),
      (Aug1 :> {}) @@ (Aug2 :> {T1300}),
      EmptyAvailability }

NoAvailabilityDoc ==
    [exists |-> FALSE, userId |-> NoUser, weekStartDate |-> "",
     availability |-> EmptyAvailability, repeating |-> FALSE]

(***************************************************************************)
(* Match documents.  acceptedBy is absent (hasAcceptedBy = FALSE) until the *)
(* first acceptance writes it; it maps a uid to the isFirst of its entry   *)
(* (the entry's timestamp is left out).  The embedded matchUser profile is *)
(* the users document of matchUserId.                                      *)
(***************************************************************************)
NoAcceptedBy == [u \in {} |-> FALSE]

NoMatch ==
    [userId |-> NoUser, matchUserId |-> NoUser, suggestedTime |-> 0,
     suggestedLocation |-> "", status |-> "none", priorityScore |-> 0,
     hasAcceptedBy |-> FALSE, acceptedBy |-> NoAcceptedBy]

\* what the caller of acceptMatch or declineMatch gets
NoResult == [kind |-> "none", status |-> Undefined, phoneNumber |-> Undefined, message |-> ""]

\* no invocation ended in the step just taken
NoCall ==
    [op |-> "none", endedAt |-> "none", userId |-> NoUser, matchId |-> 0, exists |-> FALSE,
     matchData |-> NoMatch, thrown |-> "", result |-> NoResult]

VARIABLES
    users,              \* users collection: uid -> UserProfile
    userAvailability,   \* userAvailability collection: doc id -> document
    priorityScores,     \* priorityScores collection: pair -> scores of its documents, in query order
    matches,            \* matches collection: sequence of Match documents, id = index
    notifications,      \* notifications collection: sequence of Notification documents
    calls,              \* frames of the acceptMatch / declineMatch invocations in flight
    tasks,              \* bag of the detached updatePriorityScore calls still to run
    returned,           \* the invocation that ended without a write in the step just taken
    acceptCallers,      \* history: match id -> the parties that have called acceptMatch on it
    acceptances,        \* history: match id -> the acceptMatch calls that returned from their commit
    issued,             \* number of invocations that took a frame
    saves               \* number of saveUserAvailability calls made

vars == <<users, userAvailability, priorityScores, matches, notifications, calls, tasks,
          returned, acceptCallers, acceptances, issued, saves>>

(***************************************************************************)
(* getUserAvailability                                                     *)
(***************************************************************************)
GetUserAvailability(userId, weekKey) ==
    LET docSnap == userAvailability[[userId |-> userId, key |-> weekKey]]
        repeatingDocSnap ==
            userAvailability[[userId |-> userId, key |-> repeatingAvailabilityDoc]]
    IN  IF docSnap.exists THEN docSnap
        ELSE IF repeatingDocSnap.exists
             THEN [repeatingDocSnap EXCEPT !.weekStartDate = weekKey]
             ELSE NoAvailabilityDoc        \* null

(***************************************************************************)
(* saveUserAvailability: a whole-document overwrite.  The call of          *)
(* findPotentialMatches after the write is commented out in the source.    *)
(***************************************************************************)
SaveUserAvailability(userId, weekKey, availability, isRepeating) ==
    /\ saves < MaxSaves
    /\ LET docId == [userId |-> userId,
                     key |-> IF isRepeating THEN repeatingAvailabilityDoc ELSE weekKey]
           data == [exists |-> TRUE, userId |-> userId,
                    weekStartDate |-> IF isRepeating THEN "repeating" ELSE weekKey,
                    availability |-> availability, repeating |-> isRepeating]
       IN  userAvailability' = [userAvailability EXCEPT ![docId] = data]
    /\ saves' = saves + 1
    /\ returned' = NoCall
    /\ UNCHANGED <<users, priorityScores, matches, notifications, calls, tasks,
                   acceptCallers, acceptances, issued>>

(***************************************************************************)
(* Priority score ledger                                                   *)
(***************************************************************************)
Pairs == {p \in Users \X Users : Rank(p[1]) < Rank(p[2])}

\* the users in the order the caller passed them
AsPassed(userId1, userId2) == <<userId1, userId2>>

\* const [user1Id, user2Id] = userId1 < userId2 ? [userId1, userId2] : [userId2, userId1]
OrderedPair(userId1, userId2) ==
    IF Rank(userId1) < Rank(userId2) THEN <<userId1, userId2>> ELSE <<userId2, userId1>>

SeqToSet(s) == {s[i] : i \in 1..Len(s)}

\* Math.round of the non-negative fraction num / den
RoundFraction(num, den) == (2 * num + den) \div (2 * den)

calculateBaselineScore(user1, user2) ==
    IF ~user1.hasSurveyData \/ ~user2.hasSurveyData THEN 5
    ELSE
    LET s1 == user1.surveyData
        s2 == user2.surveyData
        \* meal talk preferences: (overlap / total) * 2 of 2 points
        overlappingPreferences == s1.mealTalkPreferences \cap s2.mealTalkPreferences
        totalPreferences == Cardinality(s1.mealTalkPreferences \cup s2.mealTalkPreferences)
        fracNum == IF totalPreferences > 0 THEN 2 * Cardinality(overlappingPreferences) ELSE 0
        fracDen == IF totalPreferences > 0 THEN totalPreferences ELSE 1
        style == s1.conversationStyle # "" /\ s2.conversationStyle # ""
        pace == s1.conversationPace # "" /\ s2.conversationPace # ""
        food == s1.foodPersonality # "" /\ s2.foodPersonality # ""
        overlappingDiningHalls ==
            SelectSeq(s1.favoriteDiningHalls,
                      LAMBDA hall : hall \in SeqToSet(s2.favoriteDiningHalls))
        wholePoints ==
              (IF style /\ s1.conversationStyle = s2.conversationStyle THEN 2 ELSE 0)
            + (IF pace /\ s1.conversationPace = s2.conversationPace THEN 2 ELSE 0)
            + (IF Len(overlappingDiningHalls) > 0
               THEN Min(2, Len(overlappingDiningHalls)) ELSE 0)
            + (IF food /\ s1.foodPersonality = s2.foodPersonality THEN 2 ELSE 0)
        maxPoints == 2 + (IF style THEN 2 ELSE 0) + (IF pace THEN 2 ELSE 0) + 2
                       + (IF food THEN 2 ELSE 0)
        \* points / maxPoints * 10 as the fraction num / den
        num == (wholePoints * fracDen + fracNum) * 10
        den == fracDen * maxPoints
    IN  Max(3, Min(7, RoundFraction(num, den)))

\* the sum written as it is
UnclampedScore(score) == score

\* Math.max(0, Math.min(10, score + adjustment))
ClampScore(score) == Max(0, Min(10, score))

\* the score getPriorityScore returns for a pair whose documents are docs
PriorityScoreOf(userId1, userId2, docs) ==
    IF docs # <<>> THEN docs[1]
    ELSE calculateBaselineScore(users[OrderedPair(userId1, userId2)[1]],
                                users[OrderedPair(userId1, userId2)[2]])

\* the documents of a pair after getPriorityScore ran on it
DocsAfterGetPriorityScore(userId1, userId2, docs) ==
    IF docs # <<>> THEN docs
    ELSE <<PriorityScoreOf(userId1, userId2, docs)>>

MatchIds == 1..(MaxMatches + 1)     \* the last id never names a document

\* mealLocations: the locations collection is empty, so the defaults are used
defaultLocations ==
    <<"Tresidder Union", "Coho Cafe", "Arbuckle Dining", "Bytes Cafe", "The Axe & Palm">>

RECURSIVE ShuffledOrders(_)
ShuffledOrders(S) ==
    IF S = {} THEN {<<>>}
    ELSE UNION {{<<x>> \o p : p \in ShuffledOrders(S \ {x})} : x \in S}

\* the filter left out: every time of the user counts as overlapping
OverlappingTimesUnfiltered(userTimesForDay, otherUserTimesForDay) ==
    userTimesForDay

\* userTimesForDay.filter(time => otherUserTimesForDay.includes(time))
OverlappingTimes(userTimesForDay, otherUserTimesForDay) ==
    userTimesForDay \cap otherUserTimesForDay

\* otherUserAvailability.availability[day] || []
TimesForDay(availability, day) ==
    IF day \in DOMAIN availability THEN availability[day] ELSE {}

\* the day loop over shuffledDays: the first day with overlapping times, if any
RECURSIVE FirstOverlappingDay(_, _, _)
FirstOverlappingDay(shuffledDays, userAvail, otherAvail) ==
    IF shuffledDays = <<>> THEN <<>>
    ELSE LET day == Head(shuffledDays)
             userTimesForDay == TimesForDay(userAvail, day)
             otherUserTimesForDay == TimesForDay(otherAvail, day)
         IN  IF /\ userTimesForDay # {}
                /\ otherUserTimesForDay # {}
                /\ OverlappingTimes(userTimesForDay, otherUserTimesForDay) # {}
             THEN <<day>>
             ELSE FirstOverlappingDay(Tail(shuffledDays), userAvail, otherAvail)

\* the <<matchDay, matchTime>> pairs one run of the slot search can end with
MatchSlots(userAvail, otherAvail) ==
    UNION { LET found == FirstOverlappingDay(shuffledDays, userAvail, otherAvail)
            IN  IF found = <<>> THEN {}
                ELSE { <<found[1], matchTime>> :
                         matchTime \in OverlappingTimes(TimesForDay(userAvail, found[1]),
                                                        TimesForDay(otherAvail, found[1])) }
          : shuffledDays \in ShuffledOrders(DOMAIN userAvail) }

\* matchDate = new Date(year, month - 1, dayNum, hours, minutes); Timestamp.fromDate
SuggestedTime(matchDay, matchTime) ==
    TimestampFromDate(NewDate(matchDay[1], matchDay[2] - 1, matchDay[3],
                              matchTime[1], matchTime[2]))

\* users with surveyCompleted == true other than userId, in document order
AvailableUsers(userId) ==
    SelectSeq(UserSeq, LAMBDA uid : /\ uid \in DOMAIN users
                                    /\ users[uid].surveyCompleted
                                    /\ uid # userId)

\* getPriorityScore as findPotentialMatches sees it: 5 when the store failed in it
PriorityScoreRead(userId, uid, failing) ==
    IF uid \in failing THEN 5
    ELSE PriorityScoreOf(userId, uid, priorityScores[OrderedPair(userId, uid)])

\* one entry of usersWithPriorityScores
RankedUser(userId, uid, failing) ==
    LET priorityScore == PriorityScoreRead(userId, uid, failing)
        userFavoriteDiningHalls ==
            IF users[userId].hasSurveyData
            THEN SeqToSet(users[userId].surveyData.favoriteDiningHalls) ELSE {}
        otherUserDiningHalls == users[uid].surveyData.favoriteDiningHalls
        overlappingDiningHalls ==
            SelectSeq(otherUserDiningHalls, LAMBDA hall : hall \in userFavoriteDiningHalls)
    IN  IF ~users[uid].hasSurveyData
        THEN [user |-> uid, overlap |-> 0, diningHalls |-> <<>>,
              priorityScore |-> priorityScore]
        ELSE [user |-> uid, overlap |-> Len(overlappingDiningHalls),
              diningHalls |-> IF Len(overlappingDiningHalls) > 0
                              THEN overlappingDiningHalls ELSE otherUserDiningHalls,
              priorityScore |-> priorityScore]

\* the comparator of filteredUsers.sort: a sorts before b
SortsBefore(a, b) ==
    IF b.priorityScore # a.priorityScore
    THEN b.priorityScore - a.priorityScore < 0
    ELSE b.overlap - a.overlap < 0

\* Array.prototype.sort is stable: x goes after every entry it does not sort before
RECURSIVE InsertSorted(_, _)
InsertSorted(x, sorted) ==
    IF sorted = <<>> THEN <<x>>
    ELSE IF SortsBefore(x, Head(sorted)) THEN <<x>> \o sorted
         ELSE <<Head(sorted)>> \o InsertSorted(x, Tail(sorted))

RECURSIVE SortUsers(_)
SortUsers(s) ==
    IF s = <<>> THEN <<>>
    ELSE InsertSorted(s[Len(s)], SortUsers(SubSeq(s, 1, Len(s) - 1)))

\* every entry kept
UnfilteredUsers(userId, failing) ==
    LET available == AvailableUsers(userId)
    IN  [i \in 1..Len(available) |-> RankedUser(userId, available[i], failing)]

\* filteredUsers: entries with priority score 0 dropped
FilteredUsers(userId, failing) ==
    LET available == AvailableUsers(userId)
        ranked == [i \in 1..Len(available) |-> RankedUser(userId, available[i], failing)]
    IN  SelectSeq(ranked, LAMBDA r : r.priorityScore # 0)

\* filteredUsers.slice(0, 3), the sort left out
FirstUsers(userId, failing) ==
    LET filteredUsers == FilteredUsers(userId, failing)
    IN  SubSeq(filteredUsers, 1, Min(3, Len(filteredUsers)))

\* filteredUsers.sort(...).slice(0, 3)
UsersToMatch(userId, failing) ==
    LET sorted == SortUsers(FilteredUsers(userId, failing))
    IN  SubSeq(sorted, 1, Min(3, Len(sorted)))

\* the match documents one loop iteration can add for a ranked user (none: skipped)
NewMatches(userId, userAvail, r) ==
    LET otherUserAvailability == GetUserAvailability(r.user, ThisWeekKey)
        locations == IF Len(r.diningHalls) > 0 THEN r.diningHalls ELSE defaultLocations
    IN  IF ~otherUserAvailability.exists \/ DOMAIN otherUserAvailability.availability = {}
        THEN {}
        ELSE { [userId |-> userId, matchUserId |-> r.user,
                suggestedTime |-> SuggestedTime(slot[1], slot[2]),
                suggestedLocation |-> matchLocation, status |-> "pending",
                priorityScore |-> r.priorityScore,
                hasAcceptedBy |-> FALSE, acceptedBy |-> NoAcceptedBy]
               : slot \in MatchSlots(userAvail, otherUserAvailability.availability),
                 matchLocation \in SeqToSet(locations) }

\* the sequences of documents the loop over usersToMatch can add
RECURSIVE PotentialMatches(_, _, _)
PotentialMatches(userId, userAvail, usersToMatch) ==
    IF usersToMatch = <<>> THEN {<<>>}
    ELSE LET created == NewMatches(userId, userAvail, Head(usersToMatch))
             rest == PotentialMatches(userId, userAvail, Tail(usersToMatch))
         IN  IF created = {} THEN rest
             ELSE {<<m>> \o r : m \in created, r \in rest}

\* a query that finds nothing
NoExistingMatches(userId) == {}

\* the query userId == userId, status == 'pending'
ExistingMatches(userId) ==
    {id \in 1..Len(matches) : matches[id].userId = userId /\ matches[id].status = "pending"}

\* the test of the record alone, its days not looked at
NoAvailabilityRecord(userAvail) == ~userAvail.exists

\* !userAvailability || Object.keys(userAvailability.availability).length === 0
NoAvailability(userAvail) == ~userAvail.exists \/ DOMAIN userAvail.availability = {}

(***************************************************************************)
(* findPotentialMatches(userId), run as one step.  Both pages call it only *)
(* for a signed-in user whose survey is completed.  failing: the users for *)
(* whom the store fails inside getPriorityScore, which then returns 5 and  *)
(* saves nothing.                                                          *)
(***************************************************************************)
FindPotentialMatchesWithin(userId, failing, maxMatches) ==
    LET userAvail == GetUserAvailability(userId, ThisWeekKey)
    IN  /\ users[userId].surveyCompleted
        /\ ~NoAvailability(userAvail)
        /\ ExistingMatches(userId) = {}
        /\ failing \subseteq SeqToSet(AvailableUsers(userId))
        /\ \E created \in PotentialMatches(userId, userAvail.availability,
                                           UsersToMatch(userId, failing)) :
              /\ Len(matches) + Len(created) <= maxMatches
              /\ matches' = matches \o created
              /\ returned' =
                    [op |-> "findPotentialMatches", userId |-> userId,
                     endedAt |-> "potentialMatches",
                     result |-> {[id |-> Len(matches) + i, match |-> created[i],
                                  matchUser |-> users[created[i].matchUserId]] :
                                    i \in 1..Len(created)}]
        \* getPriorityScore saves the baseline of every pair it is asked about
        /\ priorityScores' =
              [p \in DOMAIN priorityScores |->
                 IF \E uid \in SeqToSet(AvailableUsers(userId)) \ failing :
                       p = OrderedPair(userId, uid)
                 THEN DocsAfterGetPriorityScore(p[1], p[2], priorityScores[p])
                 ELSE priorityScores[p]]
        /\ UNCHANGED <<users, userAvailability, notifications, calls, tasks,
                       acceptCallers, acceptances, issued, saves>>

FindPotentialMatches(userId, failing) == FindPotentialMatchesWithin(userId, failing, MaxMatches)

\* { ...match, matchUser: await getUserProfile(match.matchUserId) } of the pending
\* proposals the query has found
MatchesWithProfiles(existingMatches) ==
    {[id |-> id, match |-> matches[id], matchUser |-> users[matches[id].matchUserId]] :
        id \in existingMatches}

\* findPotentialMatches(userId) returns before it ranks anybody: [] without a
\* schedule, else the pending proposals of the user; nothing is written
FindPotentialMatchesReturns(userId) ==
    LET userAvail == GetUserAvailability(userId, ThisWeekKey)
        noAvailability == NoAvailability(userAvail)
    IN  /\ users[userId].surveyCompleted
        /\ noAvailability \/ ExistingMatches(userId) # {}
        /\ returned' =
              [op |-> "findPotentialMatches", userId |-> userId,
               endedAt |-> IF noAvailability THEN "userAvailability" ELSE "existingMatches",
               result |-> IF noAvailability THEN {}
                          ELSE MatchesWithProfiles(ExistingMatches(userId))]
        /\ UNCHANGED <<users, userAvailability, priorityScores, matches, notifications,
                       calls, tasks, acceptCallers, acceptances, issued, saves>>

(***************************************************************************)
(* Frames of acceptMatch and declineMatch.  A frame holds the locals of an *)
(* invocation between its getDoc and its write; it is free again once the  *)
(* invocation has ended.                                                   *)
(***************************************************************************)
Calls == 1..MaxInFlight

IdleCall ==
    [pc |-> "idle", op |-> "none", userId |-> NoUser, matchId |-> 0, matchData |-> NoMatch,
     otherUserId |-> NoUser, isFirstAcceptor |-> FALSE, newStatus |-> "none",
     phoneNumber |-> Undefined]

\* messages of the Errors thrown inside the try blocks, and of the store
MatchNotFound == "Match not found"
NoPermissionToAccept == "You don't have permission to accept this match"
NoPermissionToDecline == "You don't have permission to decline this match"
MatchWasDeclined == "This match was declined and cannot be accepted"
StoreFailure == "FirebaseError"
\* messages of the Errors the catch blocks throw
FailedToAccept == "Failed to accept meal match."
FailedToDecline == "Failed to decline meal match."

\* catch (error) { throw new Error("Failed to accept meal match.") }
AcceptCatch(error) == FailedToAccept

\* catch (error) { throw new Error("Failed to decline meal match.") }
DeclineCatch(error) == FailedToDecline

\* what the caller of an invocation gets: a rejection or a value
Threw(message) == [NoResult EXCEPT !.kind = "threw", !.message = message]
Returned(status, phoneNumber) ==
    [NoResult EXCEPT !.kind = "returned", !.status = status, !.phoneNumber = phoneNumber]

\* a new invocation takes the first free frame
CanStart(c) == /\ issued < MaxCalls
               /\ calls[c].pc = "idle"
               /\ \A d \in Calls : d < c => calls[d].pc # "idle"

\* matchDoc.exists() and matchDoc.data()
MatchExists(matchId) == matchId \in 1..Len(matches)
ReadMatch(matchId) == IF MatchExists(matchId) THEN matches[matchId] ELSE NoMatch

(***************************************************************************)
(* Detached updatePriorityScore calls: a bag of <<pair, adjustment>>.      *)
(***************************************************************************)
Adjustments == {1, 3, -1}
TaskKinds == Pairs \X Adjustments
NoTasks == [k \in TaskKinds |-> 0]

\* updatePriorityScore(userId, otherUserId, adjustment).catch(...): not awaited
StartedTask(userId1, userId2, adjustment) ==
    LET k == <<OrderedPair(userId1, userId2), adjustment>>
    IN  [tasks EXCEPT ![k] = @ + 1]

\* the documents of a pair after updatePriorityScore ran on it; when the pair has
\* none, getPriorityScore adds the baseline document and addDoc adds another one,
\* and which of the two a later query lists first is not determined (first)
DocsAfterUpdatePriorityScore(pair, docs, adjustment, first) ==
    IF docs = <<>>
    THEN LET baselineScore == PriorityScoreOf(pair[1], pair[2], docs)
             newScore == ClampScore(baselineScore + adjustment)
         IN  IF first THEN <<newScore, baselineScore>> ELSE <<baselineScore, newScore>>
    ELSE [docs EXCEPT ![1] = ClampScore(docs[1] + adjustment)]

\* a detached updatePriorityScore runs (its query and its write as one step)
UpdatePriorityScore(pair, adjustment) ==
    /\ tasks[<<pair, adjustment>>] > 0
    /\ tasks' = [tasks EXCEPT ![<<pair, adjustment>>] = @ - 1]
    /\ \E first \in BOOLEAN :
          priorityScores' =
              [priorityScores EXCEPT
                 ![pair] = DocsAfterUpdatePriorityScore(pair, @, adjustment, first)]
    /\ returned' = NoCall
    /\ UNCHANGED <<users, userAvailability, matches, notifications, calls,
                   acceptCallers, acceptances, issued, saves>>

\* the failure is thrown into the try block of the caller that started the call
CallsAbortedByScoreFailure(pair, adjustment) ==
    [c \in DOMAIN calls |->
        IF calls[c].pc = "commit" /\ OrderedPair(calls[c].userId, calls[c].otherUserId) = pair
        THEN [calls[c] EXCEPT !.pc = "idle"] ELSE calls[c]]

\* updatePriorityScore(...).catch(error => console.error(...)): the promise is not
\* awaited and its rejection is handled there, so no invocation in flight sees it
CallsAfterScoreFailure(pair, adjustment) == calls

\* the store rejects a detached updatePriorityScore: caught and logged, nothing written
UpdatePriorityScoreFails(pair, adjustment) ==
    /\ tasks[<<pair, adjustment>>] > 0
    /\ tasks' = [tasks EXCEPT ![<<pair, adjustment>>] = @ - 1]
    /\ calls' = CallsAfterScoreFailure(pair, adjustment)
    /\ returned' = NoCall
    /\ UNCHANGED <<users, userAvailability, priorityScores, matches, notifications,
                   acceptCallers, acceptances, issued, saves>>

(***************************************************************************)
(* acceptMatch(userId, matchId)                                            *)
(***************************************************************************)
\* acceptMatch without its check of status 'matched'
AcceptDecisionNoMatchedCheck(exists, matchData, userId) ==
    IF ~exists THEN "not_found"
    ELSE IF matchData.userId # userId /\ matchData.matchUserId # userId THEN "no_permission"
    ELSE IF matchData.status = "declined" THEN "declined"
    ELSE IF matchData.status = "accepted" /\ matchData.hasAcceptedBy THEN "second"
    ELSE "first"

\* acceptMatch without its check of status 'declined'
AcceptDecisionNoDeclinedCheck(exists, matchData, userId) ==
    IF ~exists THEN "not_found"
    ELSE IF matchData.userId # userId /\ matchData.matchUserId # userId THEN "no_permission"
    ELSE IF matchData.status = "matched" THEN "already_matched"
    ELSE IF matchData.status = "accepted" /\ matchData.hasAcceptedBy THEN "second"
    ELSE "first"

\* the branch acceptMatch takes on the snapshot it read
AcceptDecision(exists, matchData, userId) ==
    IF ~exists THEN "not_found"
    ELSE IF matchData.userId # userId /\ matchData.matchUserId # userId THEN "no_permission"
    ELSE IF matchData.status = "matched" THEN "already_matched"
    ELSE IF matchData.status = "declined" THEN "declined"
    ELSE IF matchData.status = "accepted" /\ matchData.hasAcceptedBy THEN "second"
    ELSE "first"

\* the two branches of the role test swapped: the caller itself
OtherUserIdSwapped(matchData, userId) ==
    IF matchData.userId = userId THEN matchData.userId ELSE matchData.matchUserId

OtherUserId(matchData, userId) ==
    IF matchData.userId = userId THEN matchData.matchUserId ELSE matchData.userId

\* otherUserProfile?.surveyData?.phoneNumber, undefined when falsy
PhoneNumberOf(otherUserId) ==
    IF users[otherUserId].hasSurveyData /\ users[otherUserId].surveyData.phoneNumber # ""
    THEN users[otherUserId].surveyData.phoneNumber
    ELSE Undefined

\* acceptedBy = matchData.acceptedBy || {}; acceptedBy[userId] = {timestamp, isFirst}
AcceptedByAfter(matchData, userId, isFirstAcceptor) ==
    (userId :> isFirstAcceptor) @@ matchData.acceptedBy

MatchCompleteNotification(userId, otherUserId, matchId) ==
    [userId |-> otherUserId, type |-> "match_complete", relatedUserId |-> userId,
     relatedMatchId |-> matchId, read |-> FALSE]

AcceptAdjustment(decision) == IF decision = "second" THEN 3 ELSE 1

\* the parties of a match document
Parties(matchData) == {matchData.userId, matchData.matchUserId}

\* history: a party called acceptMatch on a match document
AcceptCalled(userId, matchId) ==
    IF MatchExists(matchId) /\ userId \in Parties(matches[matchId])
    THEN [acceptCallers EXCEPT ![matchId] = @ \cup {userId}]
    ELSE acceptCallers

\* acceptMatch ends at its getDoc: a throw into the catch block, or already_matched
AcceptReturns(userId, matchId) ==
    LET exists == MatchExists(matchId)
        matchData == ReadMatch(matchId)
        decision == AcceptDecision(exists, matchData, userId)
        thrown == CASE decision = "not_found" -> MatchNotFound
                    [] decision = "no_permission" -> NoPermissionToAccept
                    [] decision = "declined" -> MatchWasDeclined
                    [] OTHER -> ""
    IN  /\ decision \in {"not_found", "no_permission", "already_matched", "declined"}
        /\ returned' =
              [op |-> "accept", endedAt |-> "getDoc", userId |-> userId, matchId |-> matchId,
               exists |-> exists, matchData |-> matchData, thrown |-> thrown,
               result |-> IF decision = "already_matched"
                          THEN Returned("already_matched", Undefined)
                          ELSE Threw(AcceptCatch(thrown))]
        /\ acceptCallers' = AcceptCalled(userId, matchId)
        /\ UNCHANGED <<users, userAvailability, priorityScores, matches, notifications,
                       calls, tasks, acceptances, issued, saves>>

\* acceptMatch up to its batch.commit(): the snapshot is read, the locals are set and
\* the score adjustment is started
AcceptRead(c, userId, matchId) ==
    LET exists == MatchExists(matchId)
        matchData == ReadMatch(matchId)
        decision == AcceptDecision(exists, matchData, userId)
        otherUserId == OtherUserId(matchData, userId)
    IN  /\ CanStart(c)
        /\ decision \in {"first", "second"}
        /\ calls' = [calls EXCEPT ![c] =
              [pc |-> "commit", op |-> "accept", userId |-> userId, matchId |-> matchId,
               matchData |-> matchData, otherUserId |-> otherUserId,
               isFirstAcceptor |-> (decision = "first"),
               newStatus |-> IF decision = "second" THEN "matched" ELSE "accepted",
               phoneNumber |-> IF decision = "second" THEN PhoneNumberOf(otherUserId)
                               ELSE Undefined]]
        /\ tasks' = StartedTask(userId, otherUserId, AcceptAdjustment(decision))
        /\ acceptCallers' = AcceptCalled(userId, matchId)
        /\ issued' = issued + 1
        /\ returned' = NoCall
        /\ UNCHANGED <<users, userAvailability, priorityScores, matches, notifications,
                       acceptances, saves>>

\* history: what an acceptMatch call that committed read, wrote and returned; fresh
\* tells that the document was still as the call had read it
Acceptance(f) ==
    [userId |-> f.userId, read |-> f.matchData.status, isFirst |-> f.isFirstAcceptor,
     fresh |-> (f.matchData = matches[f.matchId]),
     result |-> Returned(f.newStatus, f.phoneNumber)]

\* batch.commit() of acceptMatch succeeds, and the call returns {status, phoneNumber}
AcceptCommit(c) ==
    LET f == calls[c]
    IN  /\ f.pc = "commit"
        /\ f.op = "accept"
        /\ matches' = [matches EXCEPT ![f.matchId] =
              [@ EXCEPT !.status = f.newStatus,
                        !.hasAcceptedBy = TRUE,
                        !.acceptedBy = AcceptedByAfter(f.matchData, f.userId,
                                                       f.isFirstAcceptor)]]
        /\ notifications' =
              IF f.newStatus = "matched"
              THEN Append(notifications,
                          MatchCompleteNotification(f.userId, f.otherUserId, f.matchId))
              ELSE notifications
        /\ acceptances' = [acceptances EXCEPT ![f.matchId] = Append(@, Acceptance(f))]
        /\ calls' = [calls EXCEPT ![c] = IdleCall]
        /\ returned' = NoCall
        /\ UNCHANGED <<users, userAvailability, priorityScores, tasks, acceptCallers, issued, saves>>

\* the notification written by a call of its own (setDoc) ahead of the commit
NotificationsSetBeforeCommit(f) ==
    IF f.newStatus = "matched"
    THEN Append(notifications, MatchCompleteNotification(f.userId, f.otherUserId, f.matchId))
    ELSE notifications

\* batch.set(firstUserNotificationRef, firstUserNotification) only queues the write in
\* the batch: a rejected commit has written none of it
NotificationsAfterFailedCommit(f) == notifications

\* batch.commit() of acceptMatch is rejected by the store: nothing is written
AcceptCommitFails(c) ==
    LET f == calls[c]
    IN  /\ f.pc = "commit"
        /\ f.op = "accept"
        /\ notifications' = NotificationsAfterFailedCommit(f)
        /\ calls' = [calls EXCEPT ![c] = IdleCall]
        /\ returned' =
              [op |-> "accept", endedAt |-> "commit", userId |-> f.userId,
               matchId |-> f.matchId, exists |-> TRUE,
               matchData |-> f.matchData, thrown |-> StoreFailure,
               result |-> Threw(AcceptCatch(StoreFailure))]
        /\ UNCHANGED <<users, userAvailability, priorityScores, matches,
                       tasks, acceptCallers, acceptances, issued, saves>>

(***************************************************************************)
(* declineMatch(userId, matchId)                                           *)
(***************************************************************************)
DeclineDecision(exists, matchData, userId) ==
    IF ~exists THEN "not_found"
    ELSE IF matchData.userId # userId /\ matchData.matchUserId # userId THEN "no_permission"
    ELSE "decline"

\* declineMatch ends at its getDoc with a throw into the catch block
DeclineReturns(userId, matchId) ==
    LET exists == MatchExists(matchId)
        matchData == ReadMatch(matchId)
        decision == DeclineDecision(exists, matchData, userId)
        thrown == IF decision = "not_found" THEN MatchNotFound ELSE NoPermissionToDecline
    IN  /\ decision \in {"not_found", "no_permission"}
        /\ returned' =
              [op |-> "decline", endedAt |-> "getDoc", userId |-> userId, matchId |-> matchId,
               exists |-> exists, matchData |-> matchData, thrown |-> thrown,
               result |-> Threw(DeclineCatch(thrown))]
        /\ UNCHANGED <<users, userAvailability, priorityScores, matches, notifications,
                       calls, tasks, acceptCallers, acceptances, issued, saves>>

\* declineMatch up to its updateDoc: the score adjustment is started before the write
DeclineRead(c, userId, matchId) ==
    LET exists == MatchExists(matchId)
        matchData == ReadMatch(matchId)
        decision == DeclineDecision(exists, matchData, userId)
        otherUserId == OtherUserId(matchData, userId)
    IN  /\ CanStart(c)
        /\ decision = "decline"
        /\ calls' = [calls EXCEPT ![c] =
              [pc |-> "commit", op |-> "decline", userId |-> userId, matchId |-> matchId,
               matchData |-> matchData, otherUserId |-> otherUserId,
               isFirstAcceptor |-> FALSE, newStatus |-> "declined",
               phoneNumber |-> Undefined]]
        /\ tasks' = StartedTask(userId, otherUserId, -1)
        /\ issued' = issued + 1
        /\ returned' = NoCall
        /\ UNCHANGED <<users, userAvailability, priorityScores, matches, notifications,
                       acceptCallers, acceptances, saves>>

\* the document written whole: the fields the update does not name are lost
DeclinedOverwritten(matchData) ==
    [matchData EXCEPT !.status = "declined", !.hasAcceptedBy = FALSE,
                      !.acceptedBy = NoAcceptedBy]

\* the document after updateDoc(matchRef, {status: 'declined'}): the other fields stay
DeclinedMatch(matchData) == [matchData EXCEPT !.status = "declined"]

\* updateDoc(matchRef, {status: 'declined'}) succeeds, and the call returns
DeclineCommit(c) ==
    LET f == calls[c]
    IN  /\ f.pc = "commit"
        /\ f.op = "decline"
        /\ matches' = [matches EXCEPT ![f.matchId] = DeclinedMatch(@)]
        /\ calls' = [calls EXCEPT ![c] = IdleCall]
        /\ returned' = NoCall
        /\ UNCHANGED <<users, userAvailability, priorityScores, notifications, tasks,
                       acceptCallers, acceptances, issued, saves>>

\* updateDoc of declineMatch is rejected by the store: nothing is written
DeclineCommitFails(c) ==
    LET f == calls[c]
    IN  /\ f.pc = "commit"
        /\ f.op = "decline"
        /\ calls' = [calls EXCEPT ![c] = IdleCall]
        /\ returned' =
              [op |-> "decline", endedAt |-> "commit", userId |-> f.userId,
               matchId |-> f.matchId, exists |-> TRUE,
               matchData |-> f.matchData, thrown |-> StoreFailure,
               result |-> Threw(DeclineCatch(StoreFailure))]
        /\ UNCHANGED <<users, userAvailability, priorityScores, matches, notifications,
                       tasks, acceptCallers, acceptances, issued, saves>>

(***************************************************************************)
(* getPriorityScore and updatePriorityScore called directly, one store     *)
(* operation per step.  A frame holds the locals of a call between two of  *)
(* its awaits.  fails tells that the store rejects the operation of the    *)
(* step.                                                                   *)
(***************************************************************************)
\* adjustments a caller passes: those of acceptMatch and declineMatch, and two that
\* carry any score out of the range
ScoreAdjustments == {-11, -1, 3, 11}
\* arguments (userId1, userId2) of the calls: a pair in both orders, and a pair with
\* a user without survey data
UserPairs == {<<"u1", "u2">>, <<"u2", "u1">>, <<"u3", "u1">>}
NoScore == -1
DefaultScore == 5

\* getDocs(query(priorityScoreCollection, where('user1Id', '==', user1Id),
\*                                        where('user2Id', '==', user2Id))).docs
QueryScores(user1Id, user2Id) ==
    IF <<user1Id, user2Id>> \in DOMAIN priorityScores
    THEN priorityScores[<<user1Id, user2Id>>] ELSE <<>>

\* a query lists documents by their generated ids: a new document can take any place
InsertDoc(docs, score, k) == SubSeq(docs, 1, k - 1) \o <<score>> \o SubSeq(docs, k, Len(docs))

\* addDoc(priorityScoreCollection, {user1Id, user2Id, score, lastUpdated})
AddScoreDoc(pair, score, k) ==
    IF pair \in DOMAIN priorityScores
    THEN [priorityScores EXCEPT ![pair] = InsertDoc(@, score, k)]
    ELSE priorityScores

\* the documents that calls in flight hold by id keep their identity
CallsAfterAddDoc(cs, pair, k) ==
    [c \in Calls |->
        IF cs[c].pc = "updateDoc" /\ cs[c].pair = pair /\ cs[c].docIndex >= k
        THEN [cs[c] EXCEPT !.docIndex = @ + 1] ELSE cs[c]]

\* what the caller of getPriorityScore or updatePriorityScore gets, and the store
\* operation that failed inside the call, if any
ScoreReturn(op, userId1, userId2, adjustment, value, failedAt) ==
    [op |-> op, userId1 |-> userId1, userId2 |-> userId2, adjustment |-> adjustment,
     kind |-> "returned", value |-> value, failedAt |-> failedAt]

\* an error reaches the caller
Rethrown(error) == "threw"

\* catch (error) { console.error("Error updating priority score:", error) }
UpdatePriorityScoreCatch(error) == "returned"

\* what the caller of updatePriorityScore gets when the call ends, error telling that
\* a store operation of updatePriorityScore itself has thrown
UpdateScoreReturn(userId1, userId2, adjustment, error, failedAt) ==
    [ScoreReturn("updatePriorityScore", userId1, userId2, adjustment, NoScore, failedAt)
        EXCEPT !.kind = IF error THEN UpdatePriorityScoreCatch(StoreFailure) ELSE "returned"]

ScoreFrame(pc, op, userId1, userId2, adjustment) ==
    [pc |-> pc, op |-> op, userId1 |-> userId1, userId2 |-> userId2,
     pair |-> OrderedPair(userId1, userId2), adjustment |-> adjustment,
     baselineScore |-> NoScore, docIndex |-> 0, newScore |-> NoScore, failedAt |-> ""]

\* a new call takes the first free frame
ScoreCallCanStart(c) == /\ issued < MaxScoreCalls
                        /\ calls[c].pc = "idle"
                        /\ \A d \in Calls : d < c => calls[d].pc # "idle"

\* calculateBaselineScore(user1Profile, user2Profile) of the profiles read
BaselineScoreOf(pair) == calculateBaselineScore(users[pair[1]], users[pair[2]])

\* getPriorityScore ends at its query: the score of docs[0], or 5 from the catch block
GetPriorityScoreReturns(userId1, userId2, fails) ==
    LET pair == OrderedPair(userId1, userId2)
        docs == QueryScores(pair[1], pair[2])
    IN  /\ fails \/ docs # <<>>
        /\ returned' =
              IF fails
              THEN ScoreReturn("getPriorityScore", userId1, userId2, 0, DefaultScore, "getDocs")
              ELSE ScoreReturn("getPriorityScore", userId1, userId2, 0, docs[1], "")
        /\ UNCHANGED <<users, userAvailability, priorityScores, matches, notifications,
                       calls, tasks, acceptCallers, acceptances, issued, saves>>

\* getPriorityScore finds no document and computes the baseline
GetPriorityScoreRead(c, userId1, userId2) ==
    LET pair == OrderedPair(userId1, userId2)
        docs == QueryScores(pair[1], pair[2])
    IN  /\ ScoreCallCanStart(c)
        /\ docs = <<>>
        /\ calls' = [calls EXCEPT ![c] =
              [ScoreFrame("addBaseline", "getPriorityScore", userId1, userId2, 0)
                 EXCEPT !.baselineScore = BaselineScoreOf(pair)]]
        /\ issued' = issued + 1
        /\ returned' = NoCall
        /\ UNCHANGED <<users, userAvailability, priorityScores, matches, notifications,
                       tasks, acceptCallers, acceptances, saves>>

\* getPriorityScore saves the baseline and returns it, or returns 5 from the catch block
GetPriorityScoreAddDoc(c, fails) ==
    LET f == calls[c]
    IN  /\ f.pc = "addBaseline"
        /\ f.op = "getPriorityScore"
        /\ \E k \in 1..(Len(QueryScores(f.pair[1], f.pair[2])) + 1) :
              /\ priorityScores' =
                    IF fails THEN priorityScores ELSE AddScoreDoc(f.pair, f.baselineScore, k)
              /\ calls' = [IF fails THEN calls ELSE CallsAfterAddDoc(calls, f.pair, k)
                             EXCEPT ![c] = IdleCall]
        /\ returned' =
              IF fails
              THEN ScoreReturn("getPriorityScore", f.userId1, f.userId2, 0, DefaultScore, "addDoc")
              ELSE ScoreReturn("getPriorityScore", f.userId1, f.userId2, 0, f.baselineScore, "")
        /\ UNCHANGED <<users, userAvailability, matches, notifications, tasks,
                       acceptCallers, acceptances, issued, saves>>

\* updatePriorityScore ends at its query: the catch block logs the failure
UpdateScoreReturns(userId1, userId2, adjustment) ==
    /\ returned' = UpdateScoreReturn(userId1, userId2, adjustment, TRUE, "getDocs")
    /\ UNCHANGED <<users, userAvailability, priorityScores, matches, notifications,
                   calls, tasks, acceptCallers, acceptances, issued, saves>>

\* updatePriorityScore queries the documents of the pair: with none it goes on to
\* getPriorityScore, else to the update of docs[0]
UpdateScoreRead(c, userId1, userId2, adjustment) ==
    LET pair == OrderedPair(userId1, userId2)
        docs == QueryScores(pair[1], pair[2])
        frame == ScoreFrame("idle", "updatePriorityScore", userId1, userId2, adjustment)
    IN  /\ ScoreCallCanStart(c)
        /\ calls' = [calls EXCEPT ![c] =
              IF docs = <<>>
              THEN [frame EXCEPT !.pc = "getPriorityScore"]
              ELSE [frame EXCEPT !.pc = "updateDoc", !.docIndex = 1,
                                 !.newScore = ClampScore(docs[1] + adjustment)]]
        /\ issued' = issued + 1
        /\ returned' = NoCall
        /\ UNCHANGED <<users, userAvailability, priorityScores, matches, notifications,
                       tasks, acceptCallers, acceptances, saves>>

\* const baselineScore = await getPriorityScore(user1Id, user2Id), up to its query
UpdateScoreGetQuery(c, fails) ==
    LET f == calls[c]
        docs == QueryScores(f.pair[1], f.pair[2])
    IN  /\ f.pc = "getPriorityScore"
        /\ calls' = [calls EXCEPT ![c] =
              IF fails THEN [f EXCEPT !.pc = "addDoc", !.baselineScore = DefaultScore,
                                      !.failedAt = "getDocs"]
              ELSE IF docs # <<>> THEN [f EXCEPT !.pc = "addDoc", !.baselineScore = docs[1]]
              ELSE [f EXCEPT !.pc = "addBaseline", !.baselineScore = BaselineScoreOf(f.pair)]]
        /\ returned' = NoCall
        /\ UNCHANGED <<users, userAvailability, priorityScores, matches, notifications,
                       tasks, acceptCallers, acceptances, issued, saves>>

\* the addDoc of that getPriorityScore: the baseline is saved, or 5 is returned
UpdateScoreGetAddDoc(c, fails) ==
    LET f == calls[c]
    IN  /\ f.pc = "addBaseline"
        /\ f.op = "updatePriorityScore"
        /\ \E k \in 1..(Len(QueryScores(f.pair[1], f.pair[2])) + 1) :
              /\ priorityScores' =
                    IF fails THEN priorityScores ELSE AddScoreDoc(f.pair, f.baselineScore, k)
              /\ calls' = [IF fails THEN calls ELSE CallsAfterAddDoc(calls, f.pair, k)
                             EXCEPT ![c] =
                                IF fails THEN [f EXCEPT !.pc = "addDoc",
                                                        !.baselineScore = DefaultScore,
                                                        !.failedAt = "addDoc"]
                                ELSE [f EXCEPT !.pc = "addDoc"]]
        /\ returned' = NoCall
        /\ UNCHANGED <<users, userAvailability, matches, notifications, tasks,
                       acceptCallers, acceptances, issued, saves>>

\* addDoc of the score Math.max(0, Math.min(10, baselineScore + adjustment))
UpdateScoreAddDoc(c, fails) ==
    LET f == calls[c]
    IN  /\ f.pc = "addDoc"
        /\ \E k \in 1..(Len(QueryScores(f.pair[1], f.pair[2])) + 1) :
              /\ priorityScores' =
                    IF fails THEN priorityScores
                    ELSE AddScoreDoc(f.pair, ClampScore(f.baselineScore + f.adjustment), k)
              /\ calls' = [IF fails THEN calls ELSE CallsAfterAddDoc(calls, f.pair, k)
                             EXCEPT ![c] = IdleCall]
        /\ returned' = UpdateScoreReturn(f.userId1, f.userId2, f.adjustment, fails,
                                         IF fails THEN "addDoc" ELSE f.failedAt)
        /\ UNCHANGED <<users, userAvailability, matches, notifications, tasks,
                       acceptCallers, acceptances, issued, saves>>

\* updateDoc(doc(priorityScoreCollection, scoreDoc.id), {score: newScore, lastUpdated})
UpdateScoreUpdateDoc(c, fails) ==
    LET f == calls[c]
    IN  /\ f.pc = "updateDoc"
        /\ priorityScores' =
              IF fails THEN priorityScores
              ELSE [priorityScores EXCEPT ![f.pair][f.docIndex] = f.newScore]
        /\ calls' = [calls EXCEPT ![c] = IdleCall]
        /\ returned' = UpdateScoreReturn(f.userId1, f.userId2, f.adjustment, fails,
                                         IF fails THEN "updateDoc" ELSE "")
        /\ UNCHANGED <<users, userAvailability, matches, notifications, tasks,
                       acceptCallers, acceptances, issued, saves>>

\* the query of a detached updatePriorityScore(userId, otherUserId, adjustment) is
\* answered: the call goes on as UpdateScoreRead does, with the documents of this moment
DetachedScoreRead(c, pair, adjustment) ==
    LET docs == QueryScores(pair[1], pair[2])
        frame == ScoreFrame("idle", "updatePriorityScore", pair[1], pair[2], adjustment)
    IN  /\ tasks[<<pair, adjustment>>] > 0
        /\ calls[c].pc = "idle"
        /\ \A d \in Calls : d < c => calls[d].pc # "idle"
        /\ tasks' = [tasks EXCEPT ![<<pair, adjustment>>] = @ - 1]
        /\ calls' = [calls EXCEPT ![c] =
              IF docs = <<>>
              THEN [frame EXCEPT !.pc = "getPriorityScore"]
              ELSE [frame EXCEPT !.pc = "updateDoc", !.docIndex = 1,
                                 !.newScore = ClampScore(docs[1] + adjustment)]]
        /\ returned' = NoCall
        /\ UNCHANGED <<users, userAvailability, priorityScores, matches, notifications,
                       acceptCallers, acceptances, issued, saves>>

(***************************************************************************)
(* Specifications                                                          *)
(***************************************************************************)
EmptyStore ==
    /\ users = UserDocs
    /\ userAvailability = [id \in AvailabilityDocIds |-> NoAvailabilityDoc]
    /\ priorityScores = [p \in Pairs |-> <<>>]
    /\ matches = <<>>
    /\ notifications = <<>>
    /\ calls = [c \in Calls |-> IdleCall]
    /\ tasks = NoTasks
    /\ returned = NoCall
    /\ acceptCallers = [id \in MatchIds |-> {}]
    /\ acceptances = [id \in MatchIds |-> <<>>]
    /\ issued = 0
    /\ saves = 0

\* u1 saved a repeating schedule, u2 a schedule for this week; they share one slot
SavedAvailability ==
    [id \in AvailabilityDocIds |->
        IF id = [userId |-> "u1", key |-> repeatingAvailabilityDoc]
        THEN [exists |-> TRUE, userId |-> "u1", weekStartDate |-> "repeating",
              availability |-> (Aug1 :> {T1200, T1230}) @@ (Aug2 :> {T1300}),
              repeating |-> TRUE]
        ELSE IF id = [userId |-> "u2", key |-> ThisWeekKey]
        THEN [exists |-> TRUE, userId |-> "u2", weekStartDate |-> ThisWeekKey,
              availability |-> (Aug1 :> {T1230, T1300}), repeating |-> FALSE]
        ELSE NoAvailabilityDoc]

\* the lifecycle of proposals: concurrent requests of all users over schedules that
\* were saved before and are not changed any more
Init ==
    /\ users = UserDocs
    /\ userAvailability = SavedAvailability
    /\ priorityScores = [p \in Pairs |-> <<>>]
    /\ matches = <<>>
    /\ notifications = <<>>
    /\ calls = [c \in Calls |-> IdleCall]
    /\ tasks = NoTasks
    /\ returned = NoCall
    /\ acceptCallers = [id \in MatchIds |-> {}]
    /\ acceptances = [id \in MatchIds |-> <<>>]
    /\ issued = 0
    /\ saves = MaxSaves

Next ==
    \/ \E userId \in Users : FindPotentialMatches(userId, {})
    \/ \E userId \in Users, matchId \in MatchIds : AcceptReturns(userId, matchId)
    \/ \E c \in Calls, userId \in Users, matchId \in MatchIds : AcceptRead(c, userId, matchId)
    \/ \E c \in Calls : AcceptCommit(c)
    \/ \E c \in Calls : AcceptCommitFails(c)
    \/ \E userId \in Users, matchId \in MatchIds : DeclineReturns(userId, matchId)
    \/ \E c \in Calls, userId \in Users, matchId \in MatchIds : DeclineRead(c, userId, matchId)
    \/ \E c \in Calls : DeclineCommit(c)
    \/ \E c \in Calls : DeclineCommitFails(c)
    \/ \E k \in TaskKinds : UpdatePriorityScore(k[1], k[2])
    \/ \E k \in TaskKinds : UpdatePriorityScoreFails(k[1], k[2])

Spec == Init /\ [][Next]_vars

\* the generation of proposals: schedules are saved and findPotentialMatches is called,
\* with the store failing inside getPriorityScore for any of the candidates
NextFind ==
    \/ \E userId \in Users, weekKey \in WeekKeys, availability \in AvailabilityInputs,
          isRepeating \in BOOLEAN :
          SaveUserAvailability(userId, weekKey, availability, isRepeating)
    \/ \E userId \in Users, failing \in SUBSET Users : FindPotentialMatches(userId, failing)

SpecFind == EmptyStore /\ [][NextFind]_vars

\* findPotentialMatches called repeatedly by users whose proposals are pending and
\* who change their schedule of this week
InitPending ==
    /\ users = UserDocs
    /\ userAvailability = SavedAvailability
    /\ priorityScores = [p \in Pairs |-> <<>>]
    /\ matches = <<>>
    /\ notifications = <<>>
    /\ calls = [c \in Calls |-> IdleCall]
    /\ tasks = NoTasks
    /\ returned = NoCall
    /\ acceptCallers = [id \in MatchIds |-> {}]
    /\ acceptances = [id \in MatchIds |-> <<>>]
    /\ issued = 0
    /\ saves = 0

NextPending ==
    \/ \E userId \in Users, availability \in AvailabilityInputs :
          SaveUserAvailability(userId, ThisWeekKey, availability, FALSE)
    \/ \E userId \in Users : FindPotentialMatchesWithin(userId, {}, MaxProposals)
    \/ \E userId \in Users : FindPotentialMatchesReturns(userId)

SpecPending == InitPending /\ [][NextPending]_vars

\* saveUserAvailability(userId, weekDate, availability, isRepeating) in a browser
SaveUserAvailabilityAt(userId, weekDate, timezoneOffset, availability, isRepeating) ==
    SaveUserAvailability(userId, WeekKeyOf(weekDate, timezoneOffset), availability, isRepeating)

\* getUserAvailability(userId, weekDate) in a browser: what it looks up and returns,
\* or the Error of its catch block when the store fails
GetUserAvailabilityReturns(userId, weekDate, timezoneOffset, fails) ==
    LET weekKey == WeekKeyOf(weekDate, timezoneOffset)
    IN  /\ returned' =
              [op |-> "getUserAvailability", userId |-> userId, weekDate |-> weekDate,
               timezoneOffset |-> timezoneOffset, weekKey |-> weekKey,
               kind |-> IF fails THEN "threw" ELSE "returned",
               result |-> IF fails THEN NoAvailabilityDoc
                          ELSE GetUserAvailability(userId, weekKey)]
        /\ UNCHANGED <<users, userAvailability, priorityScores, matches, notifications,
                       calls, tasks, acceptCallers, acceptances, issued, saves>>

\* the schedules of one user: saved and fetched with dates of one week, in browsers
\* of any time zone
NextWeek ==
    \/ \E weekDate \in WeekDates, timezoneOffset \in TimezoneOffsets,
          availability \in AvailabilityInputs, isRepeating \in BOOLEAN :
          SaveUserAvailabilityAt("u1", weekDate, timezoneOffset, availability, isRepeating)
    \/ \E weekDate \in WeekDates, timezoneOffset \in TimezoneOffsets, fails \in BOOLEAN :
          GetUserAvailabilityReturns("u1", weekDate, timezoneOffset, fails)

SpecWeek == EmptyStore /\ [][NextWeek]_vars

\* saveUserAvailability up to its await setDoc(docRef, data)
SaveUserAvailabilityStarts(c, userId, weekKey, availability, isRepeating) ==
    /\ saves < MaxSaves
    /\ calls[c].pc = "idle"
    /\ \A d \in Calls : d < c => calls[d].pc # "idle"
    /\ calls' = [calls EXCEPT ![c] =
          [pc |-> "setDoc", op |-> "saveUserAvailability", userId |-> userId,
           weekKey |-> weekKey, availability |-> availability, isRepeating |-> isRepeating]]
    /\ saves' = saves + 1
    /\ returned' = NoCall
    /\ UNCHANGED <<users, userAvailability, priorityScores, matches, notifications, tasks,
                   acceptCallers, acceptances, issued>>

\* the calls saveUserAvailability starts after its write: the call of
\* findPotentialMatches(userId) is commented out
StartedBySave(userId) == {}

\* setDoc resolves and saveUserAvailability returns, or setDoc is rejected and the
\* catch block throws "Failed to save availability data."
SaveUserAvailabilitySetDoc(c, fails) ==
    LET f == calls[c]
        docId == [userId |-> f.userId,
                  key |-> IF f.isRepeating THEN repeatingAvailabilityDoc ELSE f.weekKey]
        data == [exists |-> TRUE, userId |-> f.userId,
                 weekStartDate |-> IF f.isRepeating THEN "repeating" ELSE f.weekKey,
                 availability |-> f.availability, repeating |-> f.isRepeating]
    IN  /\ f.pc = "setDoc"
        /\ userAvailability' =
              IF fails THEN userAvailability ELSE [userAvailability EXCEPT ![docId] = data]
        /\ calls' = [calls EXCEPT ![c] = IdleCall]
        /\ returned' =
              [op |-> "saveUserAvailability", userId |-> f.userId,
               kind |-> IF fails THEN "threw" ELSE "returned",
               started |-> IF fails THEN {} ELSE StartedBySave(f.userId)]
        /\ UNCHANGED <<users, priorityScores, matches, notifications, tasks,
                       acceptCallers, acceptances, issued, saves>>

\* schedules are saved, and the pages call findPotentialMatches when their user
\* opens them; a store operation that is awaited comes to its end
NextTrigger ==
    \/ \E c \in Calls, userId \in Users, availability \in AvailabilityInputs,
          isRepeating \in BOOLEAN :
          SaveUserAvailabilityStarts(c, userId, ThisWeekKey, availability, isRepeating)
    \/ \E c \in Calls, fails \in BOOLEAN : SaveUserAvailabilitySetDoc(c, fails)
    \/ \E userId \in Users : FindPotentialMatchesWithin(userId, {}, MaxProposals)
    \/ \E userId \in Users : FindPotentialMatchesReturns(userId)

SpecTrigger ==
    /\ EmptyStore
    /\ [][NextTrigger]_vars
    /\ WF_vars(\E c \in Calls, fails \in BOOLEAN : SaveUserAvailabilitySetDoc(c, fails))

\* the ranking of candidates: findPotentialMatches is called while updatePriorityScore
\* calls move the scores of the pairs, and u3, who has not completed the survey,
\* has a schedule too
InitRank ==
    /\ users = UserDocs
    /\ userAvailability =
          [SavedAvailability EXCEPT ![[userId |-> "u3", key |-> ThisWeekKey]] =
              [exists |-> TRUE, userId |-> "u3", weekStartDate |-> ThisWeekKey,
               availability |-> (Aug1 :> {T1200, T1230, T1300}), repeating |-> FALSE]]
    /\ priorityScores = [p \in Pairs |-> <<>>]
    /\ matches = <<>>
    /\ notifications = <<>>
    /\ calls = [c \in Calls |-> IdleCall]
    /\ tasks = NoTasks
    /\ returned = NoCall
    /\ acceptCallers = [id \in MatchIds |-> {}]
    /\ acceptances = [id \in MatchIds |-> <<>>]
    /\ issued = 0
    /\ saves = MaxSaves

NextRank ==
    \/ \E userId \in Users, failing \in SUBSET Users :
          FindPotentialMatchesWithin(userId, failing, MaxProposals)
    \/ \E c \in Calls, p \in UserPairs, adjustment \in ScoreAdjustments :
          UpdateScoreRead(c, p[1], p[2], adjustment)
    \/ \E c \in Calls, fails \in BOOLEAN : UpdateScoreGetQuery(c, fails)
    \/ \E c \in Calls, fails \in BOOLEAN : UpdateScoreGetAddDoc(c, fails)
    \/ \E c \in Calls, fails \in BOOLEAN : UpdateScoreAddDoc(c, fails)
    \/ \E c \in Calls, fails \in BOOLEAN : UpdateScoreUpdateDoc(c, fails)

SpecRank == InitRank /\ [][NextRank]_vars

\* the score ledger: getPriorityScore and updatePriorityScore are called for any
\* pair, in either order of its users, with the store failing at any operation
NextScore ==
    \/ \E p \in UserPairs, fails \in BOOLEAN : GetPriorityScoreReturns(p[1], p[2], fails)
    \/ \E c \in Calls, p \in UserPairs : GetPriorityScoreRead(c, p[1], p[2])
    \/ \E c \in Calls, fails \in BOOLEAN : GetPriorityScoreAddDoc(c, fails)
    \/ \E p \in UserPairs, adjustment \in ScoreAdjustments :
          UpdateScoreReturns(p[1], p[2], adjustment)
    \/ \E c \in Calls, p \in UserPairs, adjustment \in ScoreAdjustments :
          UpdateScoreRead(c, p[1], p[2], adjustment)
    \/ \E c \in Calls, fails \in BOOLEAN : UpdateScoreGetQuery(c, fails)
    \/ \E c \in Calls, fails \in BOOLEAN : UpdateScoreGetAddDoc(c, fails)
    \/ \E c \in Calls, fails \in BOOLEAN : UpdateScoreAddDoc(c, fails)
    \/ \E c \in Calls, fails \in BOOLEAN : UpdateScoreUpdateDoc(c, fails)

SpecScore == EmptyStore /\ [][NextScore]_vars

\* the score policy of the lifecycle: proposals are created and accepted, and the
\* updatePriorityScore calls that acceptMatch starts run one store operation per
\* step; the store fails nowhere
NextPolicy ==
    \/ \E userId \in Users : FindPotentialMatches(userId, {})
    \/ \E c \in Calls, userId \in Users, matchId \in MatchIds : AcceptRead(c, userId, matchId)
    \/ \E c \in Calls : AcceptCommit(c)
    \/ \E c \in Calls, k \in TaskKinds : DetachedScoreRead(c, k[1], k[2])
    \/ \E c \in Calls : UpdateScoreUpdateDoc(c, FALSE)

SpecPolicy == Init /\ [][NextPolicy]_vars

\* a users collection in which all five users have completed the survey
CrowdDocs ==
    [u \in Crowd |->
        IF u \in {"u1", "u2"} THEN UserDocs[u]
        ELSE [uid |-> u, surveyCompleted |-> TRUE, hasSurveyData |-> TRUE,
              surveyData |->
                [mealTalkPreferences |-> {"sports"},
                 conversationStyle |-> "talker", conversationPace |-> "slow",
                 foodPersonality |-> "adventurous",
                 favoriteDiningHalls |->
                    CASE u = "u3" -> <<"Wilbur", "Stern">>
                      [] u = "u4" -> <<"Arrillaga">>
                      [] OTHER -> <<"Wilbur">>,
                 phoneNumber |-> "6500000009"]]]

CrowdPairs == {p \in Crowd \X Crowd : Rank(p[1]) < Rank(p[2])}
CrowdAvailabilityDocIds == [userId : Crowd, key : DocKeys]

\* what earlier calls can have left for a candidate: no score document, one of score
\* 0 or 8; no schedule, one that shares 12:30 of 2023-08-01 with u1, one that shares
\* no slot
CandidateScores == {<<>>, <<0>>, <<8>>}
CandidateAvailabilities ==
    {EmptyAvailability, (Aug1 :> {T1230, T1300}), (Aug1 :> {T1300}) @@ (Aug2 :> {T1300})}

\* findPotentialMatches among five users: u1 has a schedule for this week, and the
\* schedules and the scores of the four candidates are any of the above
InitCrowd ==
    /\ users = CrowdDocs
    /\ \E schedule \in [Crowd \ {"u1"} -> CandidateAvailabilities] :
          userAvailability =
             [id \in CrowdAvailabilityDocIds |->
                IF id.key # ThisWeekKey THEN NoAvailabilityDoc
                ELSE IF id.userId = "u1"
                THEN [exists |-> TRUE, userId |-> "u1", weekStartDate |-> ThisWeekKey,
                      availability |-> (Aug1 :> {T1200, T1230}), repeating |-> FALSE]
                ELSE IF schedule[id.userId] = EmptyAvailability THEN NoAvailabilityDoc
                ELSE [exists |-> TRUE, userId |-> id.userId, weekStartDate |-> ThisWeekKey,
                      availability |-> schedule[id.userId], repeating |-> FALSE]]
    /\ \E scores \in [Crowd \ {"u1"} -> CandidateScores] :
          priorityScores = [p \in CrowdPairs |-> IF p[1] = "u1" THEN scores[p[2]] ELSE <<>>]
    /\ matches = <<>>
    /\ notifications = <<>>
    /\ calls = [c \in Calls |-> IdleCall]
    /\ tasks = NoTasks
    /\ returned = NoCall
    /\ acceptCallers = [id \in MatchIds |-> {}]
    /\ acceptances = [id \in MatchIds |-> <<>>]
    /\ issued = 0
    /\ saves = MaxSaves

NextCrowd ==
    \/ FindPotentialMatchesWithin("u1", {}, MaxCrowdMatches)
    \/ FindPotentialMatchesReturns("u1")

SpecCrowd == InitCrowd /\ [][NextCrowd]_vars

\* the calls of the pages issued one at a time: a call starts only when the call
\* before it has returned, while the score adjustments they started run detached
FindBetweenCalls(userId) ==
    /\ calls[1].pc = "idle"
    /\ FindPotentialMatchesWithin(userId, {}, MaxProposals)

NextRefresh ==
    \/ \E userId \in Users : FindBetweenCalls(userId)
    \/ \E userId \in Users, matchId \in MatchIds : AcceptRead(1, userId, matchId)
    \/ AcceptCommit(1)
    \/ \E userId \in Users, matchId \in MatchIds : DeclineRead(1, userId, matchId)
    \/ DeclineCommit(1)
    \/ \E k \in TaskKinds : UpdatePriorityScore(k[1], k[2])

SpecRefresh == Init /\ [][NextRefresh]_vars

(***************************************************************************)
(* Properties                                                              *)
(***************************************************************************)
ExistingIds == 1..Len(matches)

\* a step in which acceptMatch(userId, matchId) is called and reads the document
AcceptStarts(userId, matchId) ==
    \/ /\ returned' # NoCall
       /\ returned'.op = "accept"
       /\ returned'.endedAt = "getDoc"
       /\ returned'.userId = userId
       /\ returned'.matchId = matchId
    \/ \E c \in Calls :
          /\ calls[c].pc = "idle"
          /\ calls'[c].pc = "commit"
          /\ calls'[c].op = "accept"
          /\ calls'[c].userId = userId
          /\ calls'[c].matchId = matchId

\* the contact detail a user gave in the survey
ContactOf(userId) == UserDocs[userId].surveyData.phoneNumber

(* C1: a proposal is 'matched', and acceptMatch has returned a phoneNumber  *)
(* to a caller, only if both the initiator and the candidate have called    *)
(* acceptMatch on that proposal.                                            *)
DoubleOptIn ==
    \A id \in ExistingIds :
        /\ matches[id].status = "matched" => Parties(matches[id]) \subseteq acceptCallers[id]
        /\ \A i \in 1..Len(acceptances[id]) :
              acceptances[id][i].result.phoneNumber # Undefined
                  => Parties(matches[id]) \subseteq acceptCallers[id]

(* C2: when the initiator and the candidate both read the same 'pending'    *)
(* proposal in acceptMatch and both commit, exactly one of the two calls    *)
(* records isFirst = true, they do not both return 'accepted', and the      *)
(* proposal ends 'matched' with both parties' entries in acceptedBy.        *)
DoubleAcceptExclusivity ==
    \A id \in ExistingIds :
        LET a == acceptances[id]
        IN  ( /\ Len(a) = 2
              /\ a[1].read = "pending"
              /\ a[2].read = "pending"
              /\ a[1].userId # a[2].userId
              /\ matches[id].status # "declined" )
            => /\ a[1].isFirst # a[2].isFirst
               /\ ~(a[1].result.status = "accepted" /\ a[2].result.status = "accepted")
               /\ matches[id].status = "matched"
               /\ DOMAIN matches[id].acceptedBy = Parties(matches[id])

(* C3: no step of any acceptMatch or declineMatch call, however the calls   *)
(* interleave, moves a proposal whose status is 'matched' or 'declined'     *)
(* back to 'pending' or 'accepted'.                                         *)
StatusMonotone ==
    [][\A id \in ExistingIds :
          matches[id].status \in {"matched", "declined"}
              => matches'[id].status \notin {"pending", "accepted"}]_vars

(* C4: a call of acceptMatch or declineMatch by a party that found the      *)
(* proposal 'declined', or 'matched' with both parties recorded in          *)
(* acceptedBy, does not change its status when it writes.                   *)
TerminalStatus ==
    [][\A c \in Calls :
          ( /\ calls[c].pc = "commit"
            /\ calls[c].matchData.status \in {"matched", "declined"}
            /\ calls[c].matchData.status = "matched"
                  => DOMAIN calls[c].matchData.acceptedBy = Parties(calls[c].matchData)
            /\ matches[calls[c].matchId].status = calls[c].matchData.status
            /\ calls'[c].pc = "idle" )
          => matches'[calls[c].matchId].status = matches[calls[c].matchId].status]_vars

(* C5: when the two parties of a 'pending' proposal call acceptMatch one    *)
(* after the other (each call commits on the document as it read it), the   *)
(* first call returns 'accepted' with no phoneNumber, the second returns    *)
(* 'matched' with the phoneNumber of the first acceptor, and the proposal   *)
(* is then 'matched' for as long as nobody declines it.                     *)
SequentialAcceptsMatch ==
    \A id \in ExistingIds :
        LET a == acceptances[id]
        IN  /\ (Len(a) >= 1 /\ a[1].read = "pending" /\ a[1].fresh)
                  => a[1].result = Returned("accepted", Undefined)
            /\ ( /\ Len(a) >= 2
                 /\ a[1].read = "pending"
                 /\ a[1].fresh
                 /\ a[2].fresh
                 /\ a[2].userId # a[1].userId )
                  => /\ ContactOf(a[1].userId) \notin {"", Undefined}
                     /\ a[2].result = Returned("matched", ContactOf(a[1].userId))
                     /\ (Len(a) = 2 /\ matches[id].status # "declined")
                            => matches[id].status = "matched"

\* the candidate accepted first and the initiator second, and got the candidate's number
SequentialAcceptsMatchWitness ==
    \E id \in ExistingIds :
        LET a == acceptances[id]
        IN  /\ Len(a) = 2
            /\ a[1].read = "pending"
            /\ a[1].fresh
            /\ a[2].fresh
            /\ a[1].userId = matches[id].matchUserId
            /\ a[2].userId = matches[id].userId
            /\ a[2].result.phoneNumber = ContactOf(matches[id].matchUserId)
            /\ matches[id].status = "matched"

(* C6: acceptMatch called by a party on a proposal that is 'matched'        *)
(* returns 'already_matched', leaves the proposal as it is, creates no      *)
(* notification and starts no score adjustment.                             *)
IdempotentReaccept ==
    [][\A userId \in Users, id \in ExistingIds :
          ( /\ AcceptStarts(userId, id)
            /\ matches[id].status = "matched"
            /\ userId \in Parties(matches[id]) )
          => /\ returned'.result = Returned("already_matched", Undefined)
             /\ matches' = matches
             /\ notifications' = notifications
             /\ tasks' = tasks
             /\ priorityScores' = priorityScores
             /\ calls' = calls]_vars

\* a party has just re-accepted a matched proposal that both parties are recorded in
IdempotentReacceptWitness ==
    /\ returned.op = "accept"
    /\ returned.result.status = "already_matched"
    /\ returned.userId \in Parties(returned.matchData)
    /\ matches[returned.matchId].status = "matched"
    /\ DOMAIN matches[returned.matchId].acceptedBy = Parties(returned.matchData)

(* C7: acceptMatch called by a party on a proposal that is 'declined'       *)
(* fails, and leaves the proposal, the notifications and the score records  *)
(* as they are (no adjustment is started either).                           *)
DeclinedStaysDeclined ==
    [][\A userId \in Users, id \in ExistingIds :
          ( /\ AcceptStarts(userId, id)
            /\ matches[id].status = "declined"
            /\ userId \in Parties(matches[id]) )
          => /\ returned'.result.kind = "threw"
             /\ matches' = matches
             /\ notifications' = notifications
             /\ tasks' = tasks
             /\ priorityScores' = priorityScores
             /\ calls' = calls]_vars

\* a party has just tried to accept a proposal that the other party declined
DeclinedStaysDeclinedWitness ==
    /\ returned.op = "accept"
    /\ returned.thrown = MatchWasDeclined
    /\ returned.result.kind = "threw"
    /\ returned.userId \in Parties(returned.matchData)
    /\ matches[returned.matchId].status = "declined"

(* C8: acceptMatch and declineMatch called on a proposal by a user who is   *)
(* neither its initiator nor its candidate fail with a permission failure   *)
(* and change nothing.                                                      *)
StrangerGetsPermissionFailure ==
    [][( /\ returned' # NoCall
         /\ returned'.endedAt = "getDoc"
         /\ returned'.exists
         /\ returned'.userId \notin Parties(returned'.matchData) )
       => /\ returned'.result.kind = "threw"
          /\ returned'.result.message \in {NoPermissionToAccept, NoPermissionToDecline}
          /\ UNCHANGED <<matches, notifications, priorityScores, tasks, calls>>]_vars

(* C9: acceptMatch and declineMatch on an id that names no proposal fail    *)
(* with 'Match not found', which is what their caller gets, and they create *)
(* or change no proposal, notification or score record.                     *)
MissingGetsNotFound ==
    [][( /\ returned' # NoCall
         /\ returned'.endedAt = "getDoc"
         /\ ~returned'.exists )
       => /\ returned'.result.kind = "threw"
          /\ returned'.result.message = MatchNotFound
          /\ UNCHANGED <<matches, notifications, priorityScores, tasks, calls>>]_vars

\* the availability findPotentialMatches reads for a user
AvailabilityOf(userId) == GetUserAvailability(userId, ThisWeekKey).availability

\* the slots of a day in a user's availability
SlotsOn(userId, day) ==
    IF day \in DOMAIN AvailabilityOf(userId) THEN AvailabilityOf(userId)[day] ELSE {}

\* the proposals a step adds
CreatedIds == (Len(matches) + 1)..Len(matches')

(* C10: the day and time slot of the suggested time of every proposal that  *)
(* findPotentialMatches creates are in the availability of the initiator    *)
(* and in that of the candidate for that day; and no proposal is created    *)
(* for a candidate who shares no slot with the initiator on any day of the  *)
(* initiator's availability.                                                *)
AvailabilityContainment ==
    [][/\ \A id \in CreatedIds :
             LET date == DateOfSeconds(matches'[id].suggestedTime)
             IN  /\ TimeLabelOf(date) \in SlotsOn(matches'[id].userId, DateKeyOf(date))
                 /\ TimeLabelOf(date) \in SlotsOn(matches'[id].matchUserId, DateKeyOf(date))
       /\ \A userId \in Users, uid \in Users :
             (\A day \in DOMAIN AvailabilityOf(userId) :
                  SlotsOn(userId, day) \cap SlotsOn(uid, day) = {})
             => ~\E id \in CreatedIds : /\ matches'[id].userId = userId
                                        /\ matches'[id].matchUserId = uid]_vars

\* a proposal exists whose slot is the only one its two parties share
AvailabilityContainmentWitness ==
    \E id \in ExistingIds :
        LET date == DateOfSeconds(matches[id].suggestedTime)
            mine == SlotsOn(matches[id].userId, DateKeyOf(date))
            theirs == SlotsOn(matches[id].matchUserId, DateKeyOf(date))
        IN  /\ matches[id].status = "pending"
            /\ mine \cap theirs = {TimeLabelOf(date)}
            /\ mine # theirs


\* the scores stored in the priorityScores collection
StoredScores == {priorityScores[p][i] : <<p, i>> \in
                    {q \in Pairs \X (1..(2 * MaxCalls + 2 * MaxScoreCalls)) : q[2] <= Len(priorityScores[q[1]])}}

\* C11: after any sequence of getPriorityScore and updatePriorityScore calls with
\* any integer adjustments, every stored score of every pair is in the range 0 to 10.
ScoreBounds == \A score \in StoredScores : 0 <= score /\ score <= 10

\* an updatePriorityScore whose sum left the range wrote the bound
ScoreBoundsWitness ==
    /\ returned.op = "updatePriorityScore"
    /\ returned.failedAt = ""
    /\ returned.adjustment \in {-11, 11}
    /\ \E p \in Pairs : priorityScores[p] # <<>> /\ SeqToSet(priorityScores[p]) \subseteq {0, 10}

\* C12: after any sequence of getPriorityScore and updatePriorityScore calls on a
\* pair, in either order of its users and including an updatePriorityScore issued
\* when the pair has no record yet, the priorityScores collection holds at most one
\* document for the pair.  Stated for the first call of a run, which no other call
\* can overlap.
OneRecordPerPair == issued <= 1 => \A p \in Pairs : Len(priorityScores[p]) <= 1

\* what getPriorityScore(userId1, userId2) returns in this state when the store
\* answers: the score of docs[0], or the baseline
GetPriorityScoreValue(userId1, userId2) ==
    LET pair == OrderedPair(userId1, userId2)
    IN  PriorityScoreOf(userId1, userId2, QueryScores(pair[1], pair[2]))

\* C13: getPriorityScore(a, b) and getPriorityScore(b, a) return the same value,
\* whether the record of the pair exists already or the baseline is computed on
\* this call: the value a call returns is the value of the call with the users
\* exchanged.
ScoreSymmetry ==
    [][\A p \in Users \X Users :
          p[1] # p[2] =>
            /\ GetPriorityScoreReturns(p[1], p[2], FALSE)
                  => returned'.value = GetPriorityScoreValue(p[2], p[1])
            /\ \A c \in Calls :
                  ( /\ calls[c].op = "getPriorityScore"
                    /\ calls[c].userId1 = p[1]
                    /\ calls[c].userId2 = p[2]
                    /\ GetPriorityScoreAddDoc(c, FALSE) )
                  => returned'.value = BaselineScoreOf(OrderedPair(p[2], p[1]))]_vars

\* getPriorityScore('u2', 'u1') returned the adjusted score of the record of (u1, u2)
ScoreSymmetryWitness ==
    /\ returned.op = "getPriorityScore"
    /\ returned.failedAt = ""
    /\ returned.userId1 = "u2"
    /\ returned.userId2 = "u1"
    /\ priorityScores[<<"u1", "u2">>] # <<>>
    /\ returned.value = priorityScores[<<"u1", "u2">>][1]
    /\ returned.value # BaselineScoreOf(<<"u1", "u2">>)

\* C14: updatePriorityScore never raises to its caller: when a store read or write
\* inside it fails (its query, the baseline of getPriorityScore, addDoc or
\* updateDoc), the call still completes normally.
UpdateNeverRaises == returned.op = "updatePriorityScore" => returned.kind = "returned"

\* the addDoc of an updatePriorityScore on a pair without a record was rejected
UpdateNeverRaisesWitness ==
    /\ returned.op = "updatePriorityScore"
    /\ returned.failedAt = "addDoc"
    /\ returned.kind = "returned"
    /\ priorityScores[OrderedPair(returned.userId1, returned.userId2)] = <<>>

\* C15: a failing score adjustment never blocks a lifecycle transition: when the
\* updatePriorityScore started by acceptMatch or declineMatch fails, no invocation
\* ends or throws because of it and the proposals stay as they are, so that the
\* status change is still committed and the call returns its normal result.
ScoreFailureNeverBlocks ==
    [][\A k \in TaskKinds :
          UpdatePriorityScoreFails(k[1], k[2])
             => /\ calls' = calls
                /\ matches' = matches
                /\ returned' = NoCall]_vars

\* the adjustment of a first acceptance failed (the score is still the baseline and
\* no call is left to run), and the acceptance is committed and returned 'accepted'
ScoreFailureNeverBlocksWitness ==
    /\ Len(matches) = 1
    /\ matches[1].status = "accepted"
    /\ Len(acceptances[1]) = 1
    /\ acceptances[1][1].result = Returned("accepted", Undefined)
    /\ tasks = NoTasks
    /\ priorityScores[OrderedPair(matches[1].userId, matches[1].matchUserId)]
          = <<calculateBaselineScore(users[matches[1].userId], users[matches[1].matchUserId])>>

\* the proposals of status 'pending' that userId has initiated
PendingInitiatedBy(userId) ==
    {id \in 1..Len(matches) : matches[id].userId = userId /\ matches[id].status = "pending"}

\* C16 as stated: whenever the requesting user has at least one proposal of status
\* 'pending' of which they are the initiator, findPotentialMatches creates no
\* proposal and returns exactly those pending proposals, each with the candidate's
\* current profile attached.
PendingSkip ==
    [][\A userId \in Users :
          PendingInitiatedBy(userId) # {} =>
            /\ FindPotentialMatchesWithin(userId, {}, MaxProposals) => matches' = matches
            /\ FindPotentialMatchesReturns(userId) =>
                  /\ matches' = matches
                  /\ returned'.result =
                        {[id |-> id, match |-> matches[id],
                          matchUser |-> users[matches[id].matchUserId]] :
                            id \in PendingInitiatedBy(userId)}]_vars

\* getUserAvailability(userId, new Date()) is a record with at least one day
HasSchedule(userId) ==
    /\ GetUserAvailability(userId, ThisWeekKey).exists
    /\ DOMAIN GetUserAvailability(userId, ThisWeekKey).availability # {}

\* C16: whenever the requesting user has at least one proposal of status 'pending'
\* of which they are the initiator, findPotentialMatches creates no proposal; and
\* when the user also has a schedule with at least one day for the current week, it
\* returns exactly those pending proposals, each with the candidate's current
\* profile attached.  Repeated calls never increase the number of proposals.
PendingSkipWithSchedule ==
    [][\A userId \in Users :
          PendingInitiatedBy(userId) # {} =>
            /\ FindPotentialMatchesWithin(userId, {}, MaxProposals) => matches' = matches
            /\ FindPotentialMatchesReturns(userId) =>
                  /\ matches' = matches
                  /\ HasSchedule(userId) =>
                        returned'.result =
                           {[id |-> id, match |-> matches[id],
                             matchUser |-> users[matches[id].matchUserId]] :
                               id \in PendingInitiatedBy(userId)}]_vars

\* a call returned the pending proposal of its user while the store had room for more
PendingSkipWitness ==
    /\ returned.op = "findPotentialMatches"
    /\ returned.endedAt = "existingMatches"
    /\ returned.result # {}
    /\ Len(matches) < MaxProposals
    /\ \A r \in returned.result : r.match.status = "pending" /\ r.match.userId = returned.userId

\* C17: every proposal created by findPotentialMatches(u) has a candidate that is
\* not u itself, that has completed the survey, and whose score with u, as
\* getPriorityScore returned it during that invocation, is not 0.
CandidateEligibility ==
    [][\A userId \in Users, failing \in SUBSET Users :
          FindPotentialMatchesWithin(userId, failing, MaxProposals) =>
             \A id \in (Len(matches) + 1)..Len(matches') :
                /\ matches'[id].userId = userId
                /\ matches'[id].matchUserId # userId
                /\ users[matches'[id].matchUserId].surveyCompleted
                /\ PriorityScoreRead(userId, matches'[id].matchUserId, failing) # 0
                /\ matches'[id].priorityScore # 0]_vars

\* a proposal was created although the first document of the pair holds the score
\* 0: getPriorityScore failed in that invocation and returned 5
CandidateEligibilityWitness ==
    \E id \in 1..Len(matches) :
       /\ matches[id].priorityScore = DefaultScore
       /\ priorityScores[OrderedPair(matches[id].userId, matches[id].matchUserId)] # <<>>
       /\ priorityScores[OrderedPair(matches[id].userId, matches[id].matchUserId)][1] = 0
       /\ calls = [c \in Calls |-> IdleCall]

\* the key "YYYY-MM-DD" of the Monday of the week that holds weekDate
MondayKeyOf(weekDate) == DateKeyStrings[DateKeyOf(getMonday(weekDate))]

\* C18: getUserAvailability(user, date) returns the record of the Monday-aligned
\* week that holds the date when that record exists; otherwise the recurring record
\* of the user with only weekStartDate replaced by the key of the queried week;
\* otherwise null.  The call never writes to the store.
WeekFallback ==
    [][\A userId \in Users, weekDate \in WeekDates, timezoneOffset \in TimezoneOffsets :
          GetUserAvailabilityReturns(userId, weekDate, timezoneOffset, FALSE) =>
             LET weekDoc == userAvailability[[userId |-> userId, key |-> MondayKeyOf(weekDate)]]
                 repeatingDoc ==
                     userAvailability[[userId |-> userId, key |-> repeatingAvailabilityDoc]]
             IN  /\ userAvailability' = userAvailability
                 /\ returned'.result =
                       IF weekDoc.exists THEN weekDoc
                       ELSE IF repeatingDoc.exists
                            THEN [repeatingDoc EXCEPT !.weekStartDate = MondayKeyOf(weekDate)]
                            ELSE NoAvailabilityDoc]_vars

\* C19: after every successful saveUserAvailability(user, ...), findPotentialMatches
\* is eventually invoked for that user.
SaveTriggersMatching ==
    \A userId \in Users :
       ( /\ returned.op = "saveUserAvailability"
         /\ returned.kind = "returned"
         /\ returned.userId = userId )
       ~> (returned.op = "findPotentialMatches" /\ returned.userId = userId)

\* the acceptMatch calls on a proposal that returned a phone number
Reveals(matchId) ==
    {i \in 1..Len(acceptances[matchId]) :
        acceptances[matchId][i].result.phoneNumber # Undefined}

\* C20: for any single proposal, over any execution of acceptMatch calls by its two
\* parties, sequential or concurrent, at most one acceptMatch call returns a
\* revealed contact detail.
AtMostOneReveal == \A matchId \in MatchIds : Cardinality(Reveals(matchId)) <= 1

\* a step in which declineMatch(userId, matchId) is called and reads the document
DeclineStarts(userId, matchId) ==
    \/ /\ returned' # NoCall
       /\ returned'.op = "decline"
       /\ returned'.endedAt = "getDoc"
       /\ returned'.userId = userId
       /\ returned'.matchId = matchId
    \/ \E c \in Calls :
          /\ calls[c].pc = "idle"
          /\ calls'[c].pc = "commit"
          /\ calls'[c].op = "decline"
          /\ calls'[c].userId = userId
          /\ calls'[c].matchId = matchId

\* C21: declineMatch called by either party on a proposal whose status is 'pending'
\* or 'accepted' starts an updatePriorityScore of -1 on the pair and goes on to its
\* write; and its write sets the status of the proposal to 'declined' and leaves
\* acceptedBy, every other field of the proposal, the other proposals and the
\* notifications as they are.
DeclineSetsDeclined ==
    [][/\ \A userId \in Users, id \in ExistingIds :
             ( /\ DeclineStarts(userId, id)
               /\ matches[id].status \in {"pending", "accepted"}
               /\ userId \in Parties(matches[id]) )
             => /\ returned' = NoCall
                /\ tasks' = [tasks EXCEPT
                       ![<<OrderedPair(matches[id].userId, matches[id].matchUserId), -1>>]
                           = @ + 1]
                /\ matches' = matches
       /\ \A c \in Calls :
             ( /\ DeclineCommit(c)
               /\ calls[c].matchData.status \in {"pending", "accepted"} )
             => /\ matches'[calls[c].matchId].status = "declined"
                /\ matches' = [matches EXCEPT ![calls[c].matchId].status = "declined"]
                /\ notifications' = notifications]_vars

\* the initiator accepted a proposal and the candidate then declined it: the entry
\* of the initiator is still in acceptedBy
DeclineSetsDeclinedWitness ==
    \E id \in ExistingIds :
       /\ matches[id].status = "declined"
       /\ matches[id].hasAcceptedBy
       /\ DOMAIN matches[id].acceptedBy = {matches[id].userId}
       /\ Len(acceptances[id]) = 1
       /\ calls = [c \in Calls |-> IdleCall]

\* the match_complete notifications that name a proposal
MatchCompleteOf(matchId) ==
    {i \in 1..Len(notifications) :
        /\ notifications[i].type = "match_complete"
        /\ notifications[i].relatedMatchId = matchId}

\* the acceptMatch calls on a proposal whose commit wrote the status 'matched'
MatchedWrites(matchId) ==
    {i \in 1..Len(acceptances[matchId]) :
        acceptances[matchId][i].result.status = "matched"}

\* C22: the 'match_complete' notification and the transition of the proposal to
\* 'matched' are committed as one unit: in every state, the match_complete
\* notifications of a proposal are those of the acceptMatch calls whose commit wrote
\* 'matched' to it (one each, from the caller to the other party), and every step
\* that adds one writes 'matched' to the proposal; a failed commit leaves neither.
AtomicMatchComplete ==
    /\ [](\A id \in MatchIds :
            /\ Cardinality(MatchCompleteOf(id)) = Cardinality(MatchedWrites(id))
            /\ \A i \in MatchCompleteOf(id) :
                  \E j \in MatchedWrites(id) :
                     /\ notifications[i].relatedUserId = acceptances[id][j].userId
                     /\ notifications[i].userId \in Parties(matches[id])
                     /\ notifications[i].userId # acceptances[id][j].userId)
    /\ [][/\ notifications' # notifications
             => \E id \in ExistingIds :
                   /\ notifications' =
                         Append(notifications, notifications'[Len(notifications')])
                   /\ notifications'[Len(notifications')].relatedMatchId = id
                   /\ matches'[id].status = "matched"
                   /\ Len(acceptances'[id]) = Len(acceptances[id]) + 1
          /\ \A c \in Calls :
                AcceptCommitFails(c)
                   => /\ matches' = matches
                      /\ notifications' = notifications
                      /\ acceptances' = acceptances]_vars

\* the commit of a second acceptance was rejected: the proposal is still 'accepted'
\* and nobody has been notified
AtomicMatchCompleteWitness ==
    /\ returned.op = "accept"
    /\ returned.endedAt = "commit"
    /\ returned.matchData.status = "accepted"
    /\ returned.matchData.hasAcceptedBy
    /\ matches[returned.matchId].status = "accepted"
    /\ notifications = <<>>

\* the two parties of a pending proposal have accepted it one after the other, each
\* on the document as it was, and no call is left in flight or waiting
AcceptedInTurn(id) ==
    LET a == acceptances[id]
    IN  /\ Len(a) = 2
        /\ a[1].read = "pending"
        /\ a[1].fresh
        /\ a[2].fresh
        /\ a[1].userId # a[2].userId
        /\ tasks = NoTasks
        /\ \A c \in Calls : calls[c].pc = "idle"

\* C23: a first acceptance applies +1 and the acceptance that completes the match
\* +3: after the two parties have accepted a pending proposal one after the other and
\* all detached score adjustments have finished, in any interleaving of their read
\* and write steps, the stored score of the pair is min(10, s + 4), s being the score
\* before the first accept (the score the proposal was created with).
PolicySum ==
    \A id \in ExistingIds :
       AcceptedInTurn(id) =>
          LET pair == OrderedPair(matches[id].userId, matches[id].matchUserId)
          IN  /\ priorityScores[pair] # <<>>
              /\ priorityScores[pair][1] = Min(10, matches[id].priorityScore + 4)

\* the score getPriorityScore returns for two users in this state
ScoreBetween(userId, uid) ==
    PriorityScoreOf(userId, uid, priorityScores[OrderedPair(userId, uid)])

\* the users findPotentialMatches(userId) may propose: another user who has completed
\* the survey and whose score with userId is not 0
Eligible(userId) ==
    {uid \in DOMAIN users \ {userId} :
        users[uid].surveyCompleted /\ ScoreBetween(userId, uid) # 0}

\* the number of favourite locations two users share
SharedLocations(userId, uid) ==
    Cardinality(SeqToSet(users[userId].surveyData.favoriteDiningHalls)
                   \cap SeqToSet(users[uid].surveyData.favoriteDiningHalls))

\* a comes no later than b by descending score, then descending shared locations
RanksNoLower(userId, a, b) ==
    \/ ScoreBetween(userId, a) > ScoreBetween(userId, b)
    \/ /\ ScoreBetween(userId, a) = ScoreBetween(userId, b)
       /\ SharedLocations(userId, a) >= SharedLocations(userId, b)

\* the sets of at most 3 eligible users that come first in that order
TopSets(userId) ==
    {T \in SUBSET Eligible(userId) :
        /\ Cardinality(T) = Min(3, Cardinality(Eligible(userId)))
        /\ \A a \in T, b \in Eligible(userId) \ T : RanksNoLower(userId, a, b)}

\* two users share a slot on a day of the schedule of the first
SharesSlot(userId, uid) ==
    \E day \in DOMAIN AvailabilityOf(userId) : SlotsOn(userId, day) \cap SlotsOn(uid, day) # {}

\* C24: one invocation of findPotentialMatches creates at most 3 proposals, and the
\* candidates it considers are the (at most 3) eligible users that come first by
\* descending score and, among equal scores, by descending number of shared
\* favourite locations: the candidates of the proposals it creates are the members
\* of such a set that share a slot with the user, and no eligible user outside the
\* set has a strictly higher score than one inside.
TopThree ==
    [][\A userId \in Crowd :
          FindPotentialMatchesWithin(userId, {}, MaxCrowdMatches) =>
             /\ Len(matches') - Len(matches) <= 3
             /\ \E T \in TopSets(userId) :
                   /\ {matches'[id].matchUserId : id \in CreatedIds}
                         = {uid \in T : SharesSlot(userId, uid)}
                   /\ \A a \in T, b \in Eligible(userId) \ T :
                         ScoreBetween(userId, b) <= ScoreBetween(userId, a)]_vars

\* three proposals were created, and a fourth eligible user who shares a slot with
\* the initiator got none
TopThreeWitness ==
    /\ Len(matches) = 3
    /\ \A id \in ExistingIds : matches[id].userId = "u1" /\ matches[id].status = "pending"
    /\ \E uid \in Eligible("u1") :
          /\ SharesSlot("u1", uid)
          /\ \A id \in ExistingIds : matches[id].matchUserId # uid

\* C28: if the requesting user has no pending proposal and at least one eligible
\* candidate (completed survey, score not 0, has availability) shares a slot with
\* the user on some day, then findPotentialMatches creates at least one proposal,
\* however many higher-ranked candidates share no slot.
SomeProposalWhenPossible ==
    [][\A userId \in Crowd :
          ( /\ FindPotentialMatchesWithin(userId, {}, MaxCrowdMatches)
            /\ PendingInitiatedBy(userId) = {}
            /\ \E uid \in Eligible(userId) : SharesSlot(userId, uid) )
          => Len(matches') > Len(matches)]_vars

\* C25: when the requesting user has no availability (no record of the week and
\* no recurring record, or a record with no day keys), findPotentialMatches returns
\* an empty list and writes nothing: no proposal and no score record is created.
NoAvailabilityNoWrites ==
    [][\A userId \in Users :
          ( /\ ~HasSchedule(userId)
            /\ \/ FindPotentialMatchesReturns(userId)
               \/ FindPotentialMatchesWithin(userId, {}, MaxProposals) )
          => /\ returned'.result = {}
             /\ matches' = matches
             /\ priorityScores' = priorityScores
             /\ notifications' = notifications
             /\ userAvailability' = userAvailability]_vars

\* a user whose record of the week has no day has just called findPotentialMatches,
\* while another user who has completed the survey has a schedule
NoAvailabilityNoWritesWitness ==
    /\ returned.op = "findPotentialMatches"
    /\ returned.endedAt = "userAvailability"
    /\ returned.result = {}
    /\ GetUserAvailability(returned.userId, ThisWeekKey).exists
    /\ \E uid \in Users \ {returned.userId} : users[uid].surveyCompleted /\ HasSchedule(uid)
    /\ matches = <<>>

\* no acceptMatch or declineMatch call has committed its write to any proposal, and
\* none is in flight or has a score adjustment waiting
NothingCommitted ==
    /\ \A id \in ExistingIds : matches[id].status = "pending" /\ ~matches[id].hasAcceptedBy
    /\ \A c \in Calls : calls[c].pc = "idle"
    /\ tasks = NoTasks

\* C26: a pair's score is adjusted by acceptMatch or declineMatch only if the
\* status write of that call was committed: as long as every batch commit and every
\* status update has failed, the score of every pair is the one it had before the
\* calls (no document, or the baseline that findPotentialMatches saved).
ScoreFollowsCommit ==
    NothingCommitted =>
       \A p \in Pairs : priorityScores[p] \in {<<>>, <<BaselineScoreOf(p)>>}

\* C27: one proposal contributes at most one decline penalty: while the store holds
\* a single proposal that nobody has tried to accept, so that declineMatch calls on
\* it are all that adjusts a score, no stored score is more than 1 below the
\* baseline, however often and by whichever party declineMatch is called on it.
OneDeclinePenalty ==
    ( /\ Len(matches) <= 1
      /\ \A id \in MatchIds : acceptCallers[id] = {} )
    => \A p \in Pairs :
          \A i \in 1..Len(priorityScores[p]) : priorityScores[p][i] >= BaselineScoreOf(p) - 1

\* the proposals of an initiator for a candidate that are 'pending' or 'accepted'
LiveProposals(userId, uid) ==
    {id \in ExistingIds : /\ matches[id].userId = userId
                          /\ matches[id].matchUserId = uid
                          /\ matches[id].status \in {"pending", "accepted"}}

\* C29: for every ordered pair (initiator, candidate) there is at most one proposal
\* of status 'pending' or 'accepted' at any time, under any sequence of
\* findPotentialMatches, acceptMatch and declineMatch calls issued one at a time.
OneLiveProposal ==
    \A userId \in Users, uid \in Users : Cardinality(LiveProposals(userId, uid)) <= 1

\* C30: in every reachable state, a proposal of status 'matched' has an acceptedBy
\* map with exactly two entries, keyed by its initiator and its candidate, of which
\* exactly one has isFirst = true; and no proposal ever has a key in acceptedBy that
\* is not one of its two parties.
MatchedHasBothEntries ==
    \A id \in ExistingIds :
       /\ DOMAIN matches[id].acceptedBy \subseteq Parties(matches[id])
       /\ matches[id].status = "matched"
             => /\ matches[id].hasAcceptedBy
                /\ DOMAIN matches[id].acceptedBy = Parties(matches[id])
                /\ Cardinality({u \in DOMAIN matches[id].acceptedBy :
                                   matches[id].acceptedBy[u]}) = 1
====
